---- MODULE Spec2Model ----
(***************************************************************************)
(* The resumable ETL pipeline: ResumeRegistry (src/db/resume_registry.py), *)
(* FinancialDbClient (src/db/client.py), BatchExecutor (src/executor.py)   *)
(* and EtlRunner with its worker process_zip_file                          *)
(* (src/pipeline/etl_runner.py).                                           *)
(*                                                                         *)
(* A file name is a sequence of characters; an archive path is a record    *)
(* [dir, file].  The fact store is a bag of rows, the ledger a set of      *)
(* rows of the processing_history table.  processed_at (wall-clock time)   *)
(* is read by no operation and is left out of the ledger rows.             *)
(***************************************************************************)
EXTENDS Integers, Sequences, FiniteSets, TLC

VARIABLES
    files,        \* archive paths present under the source directory
    kind,         \* content of each archive file (fixed by the environment)
    store,        \* committed rows of financial_raw: a bag Rows -> Nat
    ledger,       \* rows of processing_history
    pc,           \* position of the coordinator
    todo,         \* files_to_process of the current run
    ci,           \* start index i of the current chunk (1-based)
    chunk,        \* file_paths handed to process_files
    pending,      \* indices of chunk whose future has not completed
    results,      \* results list built by process_files
    process_func, \* the work function given to process_files
    work,         \* outcome table of the generic work function
    id_extractor, \* outcome table of the id extractor given to the resume filter
    candidates,   \* file_paths of a filter call made on its own
    document,     \* elements of the document inside the archives of kind "doc"
    arg,          \* argument of a function called on its own
    ret,          \* what that call returned or raised
    temp_dir,     \* extraction directory of each running task
    tmpdirs,      \* extraction directories that exist
    errorDir,     \* BatchExecutor.error_dir ("none" when not configured)
    ri,           \* index of the result being persisted
    buffer,       \* FinancialDbClient.buffer
    err,          \* str(e) of the exception caught in the Persist step
    counts,       \* success_count and error_count of process_files
    run,          \* number of runs started
    faults,       \* number of environment faults so far
    hist          \* history: calls, marks and commits, for stating properties

vars == << files, kind, store, ledger, pc, todo, ci, chunk, pending, results,
           process_func, work, id_extractor, candidates,
           document, arg, ret, temp_dir, tmpdirs, errorDir, ri, buffer, err,
           counts, run, faults, hist >>

-----------------------------------------------------------------------------
(* Bounds *)
MaxRuns == 2
MaxFaults == 1
ChunkSize == 2
MaxItems == 3
MaxCalls == 3
NumFacts == 2
MaxIdLen == 4
MaxValueLen == 4

(* FinancialDbClient(self.db_path, batch_size=1000000) *)
BatchSize == 1000000

-----------------------------------------------------------------------------
(* File names and paths *)
Zip(stem) == stem \o << ".", "zip" >>

Files == { Zip(<< "A" >>), Zip(<< "B", "_", "x" >>), Zip(<< "C", "_", "y" >>) }

TopDir == "top"
FailedDir == "failed"
Path(d, f) == [dir |-> d, file |-> f]
Paths == { Path(d, f) : d \in {TopDir, FailedDir}, f \in Files }

basename(p) == p.file

Contains(f, c) == \E i \in 1..Len(f) : f[i] = c

(* filename.split('_')[0] *)
SplitFirst(f, c) ==
    IF Contains(f, c)
    THEN LET i == CHOOSE k \in 1..Len(f) : f[k] = c /\ \A j \in 1..(k-1) : f[j] # c
         IN SubSeq(f, 1, i - 1)
    ELSE f

(* os.path.splitext(filename)[0]: cut at the last dot, unless only dots precede it *)
SplitExtRoot(f) ==
    IF Contains(f, ".")
    THEN LET i == CHOOSE k \in 1..Len(f) : f[k] = "." /\ \A j \in (k+1)..Len(f) : f[j] # "."
         IN IF \E j \in 1..(i-1) : f[j] # "." THEN SubSeq(f, 1, i - 1) ELSE f
    ELSE f

(* process_zip_file, lines 30-34 *)
ZipDocId(p) ==
    LET filename == basename(p)
    IN IF Contains(filename, "_") THEN SplitFirst(filename, "_") ELSE SplitExtRoot(filename)

(* the id_extractor lambda of EtlRunner.run, line 114 *)
FilterDocId(p) == SplitExtRoot(basename(p))

DocIds == { ZipDocId(p) : p \in Paths }

(* the inner document of an archive, and the provisional doc_id the parser    *)
(* takes from its name                                                         *)
InnerName == << "inner", ".", "xbrl" >>

Inner == << "inner" >>

-----------------------------------------------------------------------------
(* ResumeRegistry *)
Null == "null"
Statuses == { "success", "error" }

LedgerRow(d, path, status, msg) ==
    [doc_id |-> d, file_path |-> path, status |-> status, error_message |-> msg]

(* mutant: a plain INSERT that leaves the previous row of the doc_id in place *)
_upsert_KeepOld(l, d, path, status, msg, writeOk) ==
    IF writeOk THEN l \cup { LedgerRow(d, path, status, msg) } ELSE l

(* INSERT OR REPLACE on the primary key doc_id; sqlite3.Error is logged and swallowed *)
_upsert(l, d, path, status, msg, writeOk) ==
    IF writeOk
    THEN { r \in l : r.doc_id # d } \cup { LedgerRow(d, path, status, msg) }
    ELSE l

mark_as_processed(l, d, path, writeOk) == _upsert(l, d, path, "success", Null, writeOk)

mark_as_error(l, d, path, msg, writeOk) == _upsert(l, d, path, "error", msg, writeOk)

(* SELECT 1 ... WHERE doc_id = ? AND status = 'success'; False on sqlite3.Error *)
is_processed(l, d, readOk) ==
    IF readOk THEN \E r \in l : r.doc_id = d /\ r.status = "success" ELSE FALSE

(* mutant: the bulk read returns every doc_id of the ledger, whatever its status *)
_get_all_processed_ids_AnyStatus(l, readOk) ==
    IF readOk THEN { r.doc_id : r \in l } ELSE {}

(* SELECT doc_id ... WHERE status = 'success'; the empty set on sqlite3.Error *)
_get_all_processed_ids(l, readOk) ==
    IF readOk THEN { r.doc_id : r \in { x \in l : x.status = "success" } } ELSE {}

(* mutant: unprocessed paths are collected in reverse order *)
RECURSIVE FilterLoop_Prepend(_, _, _, _)
FilterLoop_Prepend(file_paths, processed_ids, extractor, acc) ==
    IF file_paths = << >> THEN acc
    ELSE LET path == Head(file_paths)
             doc_id == extractor[path]
         IN FilterLoop_Prepend(Tail(file_paths), processed_ids, extractor,
                IF doc_id.t = "raise" THEN << path >> \o acc
                ELSE IF doc_id.v \notin processed_ids THEN << path >> \o acc ELSE acc)

(* mutant: a path whose id cannot be extracted is dropped *)
RECURSIVE FilterLoop_DropOnRaise(_, _, _, _)
FilterLoop_DropOnRaise(file_paths, processed_ids, extractor, acc) ==
    IF file_paths = << >> THEN acc
    ELSE LET path == Head(file_paths)
             doc_id == extractor[path]
         IN FilterLoop_DropOnRaise(Tail(file_paths), processed_ids, extractor,
                IF doc_id.t = "raise" THEN acc
                ELSE IF doc_id.v \notin processed_ids THEN Append(acc, path) ELSE acc)

(* the loop of lines 99-110; extractor[path] is what id_extractor(path) returns or raises *)
RECURSIVE FilterLoop(_, _, _, _)
FilterLoop(file_paths, processed_ids, extractor, acc) ==
    IF file_paths = << >> THEN acc
    ELSE LET path == Head(file_paths)
             doc_id == extractor[path]
         IN FilterLoop(Tail(file_paths), processed_ids, extractor,
                IF doc_id.t = "raise" THEN Append(acc, path)
                ELSE IF doc_id.v \notin processed_ids THEN Append(acc, path) ELSE acc)

(* mutant: every doc_id that has a ledger entry is skipped *)
filter_unprocessed_files_SkipSeen(l, file_paths, extractor, readOk) ==
    FilterLoop(file_paths, _get_all_processed_ids_AnyStatus(l, readOk), extractor, << >>)

(* filter_unprocessed_files: one bulk read of the success ids, then the loop *)
filter_unprocessed_files(l, file_paths, extractor, readOk) ==
    FilterLoop(file_paths, _get_all_processed_ids(l, readOk), extractor, << >>)

-----------------------------------------------------------------------------
(* FinancialDbClient *)
Rows == [doc_id : DocIds \cup { Inner }, k : 1..NumFacts, rej : BOOLEAN]

EmptyStore == [r \in Rows |-> 0]

Occurrences(buf, r) == Cardinality({ i \in 1..Len(buf) : buf[i] = r })

(* bulk_insert_mappings + commit: every buffered record becomes a new row *)
Commit(st, buf) == [r \in Rows |-> st[r] + Occurrences(buf, r)]

Rejected(buf) == \E i \in 1..Len(buf) : buf[i].rej

FlushError(buf) == IF Rejected(buf) THEN "rejected" ELSE "unavailable"

Sink(buf, st, raised) == [buffer |-> buf, store |-> st, raised |-> raised]

(* mutant: the rollback of a failed flush also undoes the rows committed before *)
flush_RollbackWipes(buf, st, dbOk) ==
    IF buf = << >> THEN Sink(buf, st, Null)
    ELSE IF dbOk /\ ~Rejected(buf) THEN Sink(<< >>, Commit(st, buf), Null)
    ELSE Sink(buf, EmptyStore, FlushError(buf))

(* mutant: the records before the first refused one stay committed *)
flush_PartialCommit(buf, st, dbOk) ==
    IF buf = << >> THEN Sink(buf, st, Null)
    ELSE IF dbOk /\ ~Rejected(buf) THEN Sink(<< >>, Commit(st, buf), Null)
    ELSE IF Rejected(buf)
    THEN LET first == CHOOSE i \in 1..Len(buf) : buf[i].rej /\ \A j \in 1..(i - 1) : ~buf[j].rej
         IN Sink(SubSeq(buf, first, Len(buf)), Commit(st, SubSeq(buf, 1, first - 1)),
                 FlushError(buf))
    ELSE Sink(buf, st, FlushError(buf))

(* flush: nothing on an empty buffer; commit and clear; or rollback and re-raise *)
flush(buf, st, dbOk) ==
    IF buf = << >> THEN Sink(buf, st, Null)
    ELSE IF dbOk /\ ~Rejected(buf) THEN Sink(<< >>, Commit(st, buf), Null)
    ELSE Sink(buf, st, FlushError(buf))

(* insert_many: extend the buffer, flush when the threshold is reached *)
insert_many(buf, st, records, batch_size, dbOk) ==
    LET b == buf \o records
    IN IF Len(b) >= batch_size THEN flush(b, st, dbOk) ELSE Sink(b, st, Null)

(* close: flush what is left, then close the session *)
close(buf, st, dbOk) == flush(buf, st, dbOk)

-----------------------------------------------------------------------------
(* What a call gives back: a value, None, or an exception *)
Val(v) == [t |-> "val", v |-> v]
None == [t |-> "none", v |-> << >>]
Raise(m) == [t |-> "raise", v |-> << m >>]

-----------------------------------------------------------------------------
(* Strings.  A string is a sequence of pieces, each piece standing for the    *)
(* run of characters it names; the searched substrings are sequences of whole  *)
(* pieces.                                                                      *)
Blank == " "
Filler == "x499"
Digits == { "1000000", "1", "2", "5" }

(* XbrlParser.MAX_TEXT_LENGTH *)
MAX_TEXT_LENGTH == 500

(* number of characters of a piece *)
Width(c) ==
    IF c = Filler THEN MAX_TEXT_LENGTH - 1
    ELSE IF c = "1000000" THEN 7
    ELSE 1

RECURSIVE StrLen(_)
StrLen(s) == IF s = << >> THEN 0 ELSE Width(Head(s)) + StrLen(Tail(s))

(* w in s *)
HasSub(s, w) == \E i \in 1..(Len(s) - Len(w) + 1) : SubSeq(s, i, i + Len(w) - 1) = w

(* s.strip() *)
RECURSIVE LStrip(_)
LStrip(s) == IF s # << >> /\ Head(s) = Blank THEN LStrip(Tail(s)) ELSE s

RECURSIVE RStrip(_)
RStrip(s) ==
    IF s # << >> /\ s[Len(s)] = Blank THEN RStrip(SubSeq(s, 1, Len(s) - 1)) ELSE s

strip(s) == RStrip(LStrip(s))

(* s.replace(w, '') for a one- or two-piece w *)
RECURSIVE RemoveSub(_, _)
RemoveSub(s, w) ==
    IF Len(s) < Len(w) THEN s
    ELSE IF SubSeq(s, 1, Len(w)) = w THEN RemoveSub(SubSeq(s, Len(w) + 1, Len(s)), w)
    ELSE << Head(s) >> \o RemoveSub(Tail(s), w)

-----------------------------------------------------------------------------
(* ValueNormalizer *)
DigitValue(c) ==
    IF c = "1000000" THEN 1000000
    ELSE IF c = "1" THEN 1
    ELSE IF c = "2" THEN 2
    ELSE IF c = "5" THEN 5
    ELSE 0

RECURSIVE Pow10(_)
Pow10(n) == IF n = 0 THEN 1 ELSE 10 * Pow10(n - 1)

(* the number a run of digit pieces writes *)
RECURSIVE DigitsValue(_, _)
DigitsValue(s, acc) ==
    IF s = << >> THEN acc
    ELSE DigitsValue(Tail(s), acc * Pow10(Width(Head(s))) + DigitValue(Head(s)))

(* A float: a finite m * 10^e with m not a multiple of 10, an infinity of     *)
(* sign m, or not-a-number                                                     *)
RECURSIVE Fin(_, _)
Fin(m, e) ==
    IF m = 0 THEN << "fin", 0, 0 >>
    ELSE IF m % 10 = 0 THEN Fin(m \div 10, e + 1)
    ELSE << "fin", m, e >>

Inf(sign) == << "inf", sign, 0 >>
NaN == << "nan", 0, 0 >>

RECURSIVE NumDigits(_)
NumDigits(n) == IF n < 10 THEN 1 ELSE 1 + NumDigits(n \div 10)

(* the range of a double: beyond it float() gives an infinity, below it zero *)
MaxExp10 == 308
MinExp10 == 0 - 324

Ranged(sign, m, e) ==
    IF m = 0 THEN Fin(0, 0)
    ELSE IF NumDigits(m) + e - 1 > MaxExp10 THEN Inf(sign)
    ELSE IF NumDigits(m) + e - 1 < MinExp10 THEN Fin(0, 0)
    ELSE Fin(sign * m, e)

(* index of the first piece c of s, 0 when there is none *)
IndexOf(s, c) ==
    IF \E i \in 1..Len(s) : s[i] = c
    THEN CHOOSE i \in 1..Len(s) : s[i] = c /\ \A j \in 1..(i - 1) : s[j] # c
    ELSE 0

IsDigits(d) == \A i \in 1..Len(d) : d[i] \in Digits

HasSign(t) == t # << >> /\ Head(t) \in { "-", "+" }
Unsigned(t) == IF HasSign(t) THEN Tail(t) ELSE t
SignOf(t) == IF t # << >> /\ Head(t) = "-" THEN 0 - 1 ELSE 1

(* digits [ . digits ] with a digit on at least one side of the point *)
IntPart(b) == IF IndexOf(b, ".") = 0 THEN b ELSE SubSeq(b, 1, IndexOf(b, ".") - 1)
FracPart(b) == IF IndexOf(b, ".") = 0 THEN << >> ELSE SubSeq(b, IndexOf(b, ".") + 1, Len(b))
IsMantissa(b) == IsDigits(IntPart(b)) /\ IsDigits(FracPart(b)) /\ IntPart(b) \o FracPart(b) # << >>

(* mantissa [ e [sign] digits ] *)
MantissaOf(b) == IF IndexOf(b, "e") = 0 THEN b ELSE SubSeq(b, 1, IndexOf(b, "e") - 1)
ExponentOf(b) == IF IndexOf(b, "e") = 0 THEN << >> ELSE SubSeq(b, IndexOf(b, "e") + 1, Len(b))
IsDecimal(b) ==
    /\ IsMantissa(MantissaOf(b))
    /\ IndexOf(b, "e") # 0 => (Unsigned(ExponentOf(b)) # << >> /\ IsDigits(Unsigned(ExponentOf(b))))

(* the strings float() accepts: surrounding blanks, an optional sign, then a  *)
(* decimal or one of the words inf and nan                                     *)
IsFloat(s) ==
    LET b == Unsigned(strip(s))
    IN b \in { << "inf" >>, << "nan" >> } \/ IsDecimal(b)

(* float(s) for such a string *)
FloatOf(s) ==
    LET t == strip(s)
        b == Unsigned(t)
        m == MantissaOf(b)
        x == ExponentOf(b)
    IN IF b = << "nan" >> THEN NaN
       ELSE IF b = << "inf" >> THEN Inf(SignOf(t))
       ELSE Ranged(SignOf(t), DigitsValue(IntPart(m) \o FracPart(m), 0),
                   SignOf(x) * DigitsValue(Unsigned(x), 0) - StrLen(FracPart(m)))

(* mutant: a decimals hint of -3 scales the value to thousands *)
normalize_ScaleByDecimals(value, decimals, unit_ref) ==
    LET f == IF value = None \/ ~IsFloat(value.v) THEN Fin(0, 0) ELSE FloatOf(value.v)
    IN IF decimals = Val(<< "-", "3" >>) /\ f[1] = "fin"
       THEN Fin(f[2], f[3] + 3)
       ELSE f

(* normalize(value, decimals, unit_ref): float(value), 0.0 when it cannot be converted *)
normalize(value, decimals, unit_ref) ==
    IF value = None THEN Fin(0, 0)
    ELSE IF IsFloat(value.v) THEN FloatOf(value.v) ELSE Fin(0, 0)

-----------------------------------------------------------------------------
(* ContextHandler *)

(* re.search(r'(?<!Non)Consolidated', s) *)
SearchConsolidatedNotAfterNon(s) ==
    \E i \in 1..Len(s) : s[i] = "Consolidated" /\ (i = 1 \/ s[i - 1] # "Non")

(* mutant: without the second check for NonConsolidated *)
is_consolidated_current_NoDoubleCheck(context_id) ==
    IF context_id = None \/ context_id.v = << >> THEN FALSE
    ELSE IF ~HasSub(context_id.v, << "CurrentYear" >>) THEN FALSE
    ELSE IF ~SearchConsolidatedNotAfterNon(context_id.v) THEN FALSE
    ELSE TRUE

is_consolidated_current(context_id) ==
    IF context_id = None \/ context_id.v = << >> THEN FALSE
    ELSE IF ~HasSub(context_id.v, << "CurrentYear" >>) THEN FALSE
    ELSE IF ~SearchConsolidatedNotAfterNon(context_id.v) THEN FALSE
    ELSE IF HasSub(context_id.v, << "Non", "Consolidated" >>) THEN FALSE
    ELSE TRUE

(* mutant: Duration is looked for first *)
get_period_type_DurationFirst(context_id) ==
    IF context_id = None THEN Raise("TypeError")
    ELSE IF HasSub(context_id.v, << "Duration" >>) THEN Val(<< "Duration" >>)
    ELSE IF HasSub(context_id.v, << "Instant" >>) THEN Val(<< "Instant" >>)
    ELSE Val(<< "Unknown" >>)

(* re.search(pattern, None) raises TypeError: the function has no guard for None *)
get_period_type(context_id) ==
    IF context_id = None THEN Raise("TypeError")
    ELSE IF HasSub(context_id.v, << "Instant" >>) THEN Val(<< "Instant" >>)
    ELSE IF HasSub(context_id.v, << "Duration" >>) THEN Val(<< "Duration" >>)
    ELSE Val(<< "Unknown" >>)

-----------------------------------------------------------------------------
(* XbrlParser.parse.  A document is the sequence of its elements in document  *)
(* order; an element has its tag name, its text and the three attributes the   *)
(* parser reads, each None when absent.  The document-level metadata           *)
(* (security_code) is the same for all facts of a document and is left out.    *)
Tag(name, contextRef, text, unitRef, decimals) ==
    [name |-> name, contextRef |-> contextRef, text |-> text,
     unitRef |-> unitRef, decimals |-> decimals]

NoiseNames ==
    { << "xbrl" >>, << "link" >>, << "schemaRef" >>, << "context" >>, << "unit" >>,
      << "header" >>, << "hidden" >>, << "measure" >> }

LinkPrefixes == { << "link" >>, << "xbrli" >>, << "xlink" >> }

(* lines 52-55 *)
IsSystemTag(tag) ==
    \/ tag.name \in NoiseNames
    \/ Contains(tag.name, ":") /\ SplitFirst(tag.name, ":") \in LinkPrefixes

(* mutant: an element without text is not skipped *)
Survives_KeepEmptyText(tag) ==
    /\ ~IsSystemTag(tag)
    /\ tag.contextRef # None /\ tag.contextRef.v # << >>

(* lines 52-65: not a system tag, a contextRef, text left after strip() *)
Survives(tag) ==
    /\ ~IsSystemTag(tag)
    /\ tag.contextRef # None /\ tag.contextRef.v # << >>
    /\ strip(tag.text) # << >>

(* line 71 *)
IsNumeric(tag) == tag.unitRef # None \/ tag.decimals # None

(* mutant: only the length is tested *)
IsShortText_LengthOnly(tag) ==
    StrLen(strip(tag.text)) <= MAX_TEXT_LENGTH

(* lines 82-87: the two tests a text element has to pass *)
IsShortText(tag) ==
    /\ ~HasSub(tag.name, << "TextBlock" >>)
    /\ StrLen(strip(tag.text)) <= MAX_TEXT_LENGTH

(* mutant: every element is given a number *)
NormalizedVal_Always(tag) ==
    Val(normalize(Val(strip(tag.text)), tag.decimals, tag.unitRef))

(* lines 75 and 90 *)
NormalizedVal(tag) ==
    IF IsNumeric(tag)
    THEN Val(normalize(Val(strip(tag.text)), tag.decimals, tag.unitRef))
    ELSE None

(* lines 99-112 *)
MakeRecord(tag, doc_id) ==
    [doc_id           |-> doc_id,
     period           |-> get_period_type(tag.contextRef).v[1],
     tag_name         |-> tag.name,
     context_id       |-> tag.contextRef.v,
     raw_value        |-> strip(tag.text),
     normalized_value |-> NormalizedVal(tag),
     unit             |-> tag.unitRef,
     decimals         |-> tag.decimals]

(* mutant: a surviving element is emitted whatever its name and length *)
ParseTag_EmitAll(tag, doc_id) ==
    IF Survives(tag) THEN << MakeRecord(tag, doc_id) >> ELSE << >>

(* one iteration of the loop of line 50 *)
ParseTag(tag, doc_id) ==
    IF Survives(tag) /\ (IsNumeric(tag) \/ IsShortText(tag))
    THEN << MakeRecord(tag, doc_id) >>
    ELSE << >>

RECURSIVE ParseLoop(_, _, _)
ParseLoop(tags, doc_id, records) ==
    IF tags = << >> THEN records
    ELSE ParseLoop(Tail(tags), doc_id, records \o ParseTag(Head(tags), doc_id))

(* line 43: the provisional doc_id, from the name of the document file *)
ProvisionalDocId(filename) ==
    IF Contains(filename, "_") THEN SplitFirst(filename, "_")
    ELSE RemoveSub(filename, << ".", "xbrl" >>)

parse(filename, tags) == ParseLoop(tags, ProvisionalDocId(filename), << >>)

-----------------------------------------------------------------------------
(* XbrlParser.parse and process_zip_file *)
Kinds == { "ok", "rej", "nodoc", "badzip" }

(* the records of the archive's document, under the parser's provisional doc_id *)
(* for an archive of kind "doc" they are the records parse makes of document,  *)
(* each named by its position among them                                       *)
ParserRecords(k) ==
    IF k = "doc"
    THEN LET records == parse(InnerName, document)
         IN [j \in 1..Len(records) |-> [doc_id |-> records[j].doc_id, k |-> j, rej |-> FALSE]]
    ELSE [j \in 1..NumFacts |-> [doc_id |-> Inner, k |-> j, rej |-> (k = "rej" /\ j = 1)]]

(* mutant: a bad archive is reported as an archive without a document *)
process_zip_file_SwallowBadZip(p, k) ==
    LET doc_id == ZipDocId(p)
    IN IF k \in { "badzip", "nodoc" } THEN Val(<< doc_id, << >> >>)
       ELSE IF k = "unparsable" THEN Raise("Exception")
       ELSE LET records == ParserRecords(k)
            IN Val(<< doc_id, [j \in 1..Len(records) |-> [records[j] EXCEPT !.doc_id = doc_id]] >>)

(* mutant: the records keep the doc_id the parser gave them *)
process_zip_file_KeepProvisional(p, k) ==
    LET doc_id == ZipDocId(p)
    IN IF k = "badzip" THEN Raise("BadZipFile")
       ELSE IF k = "unparsable" THEN Raise("Exception")
       ELSE IF k = "nodoc" THEN Val(<< doc_id, << >> >>)
       ELSE Val(<< doc_id, ParserRecords(k) >>)

(* mutant: an archive without a document is a failure of the task *)
process_zip_file_NoDocRaises(p, k) ==
    LET doc_id == ZipDocId(p)
    IN IF k \in { "badzip", "nodoc" } THEN Raise("BadZipFile")
       ELSE IF k = "unparsable" THEN Raise("Exception")
       ELSE LET records == ParserRecords(k)
            IN Val(<< doc_id, [j \in 1..Len(records) |-> [records[j] EXCEPT !.doc_id = doc_id]] >>)

process_zip_file(p, k) ==
    LET doc_id == ZipDocId(p)
    IN IF k = "badzip" THEN Raise("BadZipFile")
       ELSE IF k = "unparsable" THEN Raise("Exception")
       ELSE IF k = "nodoc" THEN Val(<< doc_id, << >> >>)
       ELSE LET records == ParserRecords(k)
            IN Val(<< doc_id, [j \in 1..Len(records) |-> [records[j] EXCEPT !.doc_id = doc_id]] >>)

-----------------------------------------------------------------------------
(* History kept for stating properties; no operation of the program reads it *)
NoMark == [status |-> "none", msg |-> Null]

Slots == 1..(IF ChunkSize > MaxItems THEN ChunkSize ELSE MaxItems)

Hist0 ==
    [calls       |-> [i \in Slots |-> 0],   \* invocations of the work function per item
     errs        |-> [i \in Slots |-> 0],   \* failures handled per item
     store0      |-> EmptyStore,                  \* the store when the current run started
     allOk0      |-> FALSE,                       \* every archive had a success entry at that time
     flushFailed |-> {},                          \* doc_ids whose flush raised in the current run
     reextract   |-> FALSE,                       \* a task ran for a doc_id already marked success
     lastCall    |-> [d \in DocIds |-> NoMark],   \* the most recent mark call per doc_id
     lastWritten |-> [d \in DocIds |-> NoMark],   \* the most recent mark call whose write took effect
     demoted     |-> FALSE,                       \* an error mark replaced a success entry
     ncalls      |-> 0,
     exit        |-> "none"]                      \* how the last run ended

Marked(h, d, status, msg, writeOk) ==
    [h EXCEPT !.lastCall[d] = [status |-> status, msg |-> msg],
              !.lastWritten[d] = IF writeOk THEN [status |-> status, msg |-> msg] ELSE @,
              !.demoted = @ \/ (writeOk /\ status = "error" /\ h.lastWritten[d].status = "success"),
              !.ncalls = @ + 1]

-----------------------------------------------------------------------------
(* BatchExecutor.process_files *)
Counts0 == [success |-> 0, error |-> 0]

(* process_func(file_path) as run by _process_wrapper *)
_process_wrapper(p) ==
    IF process_func = "process_zip_file" THEN process_zip_file(p, kind[basename(p)]) ELSE work[p]

(* mutant: the failing input is copied to the error directory and stays in place *)
MoveFailed_Copy(fs, p, moveOk) ==
    IF errorDir # "none" /\ p \in fs /\ moveOk
    THEN fs \cup { Path(errorDir, basename(p)) }
    ELSE fs

(* shutil.move(file_path, os.path.join(error_dir, filename)); a failing move is logged *)
MoveFailed(fs, p, moveOk) ==
    IF errorDir # "none" /\ p \in fs /\ moveOk
    THEN (fs \ {p}) \cup { Path(errorDir, basename(p)) }
    ELSE fs

(* mutant: a raising task ends the loop, the futures still pending are dropped *)
HandleFuture_AbortOnError(i, moveOk) ==
    LET p == chunk[i]
        result == _process_wrapper(p)
    IN /\ pending' = IF result.t = "raise" THEN {} ELSE pending \ {i}
       /\ hist' = [hist EXCEPT !.calls[i] = @ + 1,
                               !.errs[i] = IF result.t = "raise" THEN @ + 1 ELSE @]
       /\ IF result.t = "val"
          THEN /\ results' = Append(results, result.v)
               /\ counts' = [counts EXCEPT !.success = @ + 1]
               /\ files' = files
          ELSE IF result.t = "none"
          THEN UNCHANGED << results, counts, files >>
          ELSE /\ results' = results
               /\ counts' = [counts EXCEPT !.error = @ + 1]
               /\ files' = MoveFailed(files, p, moveOk)

(* mutant: a None result is counted as an error *)
HandleFuture_NoneIsError(i, moveOk) ==
    LET p == chunk[i]
        result == _process_wrapper(p)
    IN /\ pending' = pending \ {i}
       /\ hist' = [hist EXCEPT !.calls[i] = @ + 1,
                               !.errs[i] = IF result.t = "raise" THEN @ + 1 ELSE @]
       /\ IF result.t = "val"
          THEN /\ results' = Append(results, result.v)
               /\ counts' = [counts EXCEPT !.success = @ + 1]
               /\ files' = files
          ELSE /\ results' = results
               /\ counts' = [counts EXCEPT !.error = @ + 1]
               /\ files' = IF result.t = "raise" THEN MoveFailed(files, p, moveOk) ELSE files

(* mutant: a failed task is handed to the caller as a result without records *)
HandleFuture_FailureAsResult(i, moveOk) ==
    LET p == chunk[i]
        result == _process_wrapper(p)
    IN /\ pending' = pending \ {i}
       /\ hist' = [hist EXCEPT !.calls[i] = @ + 1,
                               !.errs[i] = IF result.t = "raise" THEN @ + 1 ELSE @,
                               !.reextract = @ \/ (process_func = "process_zip_file"
                                                   /\ is_processed(ledger, ZipDocId(p), TRUE))]
       /\ IF result.t = "val"
          THEN /\ results' = Append(results, result.v)
               /\ counts' = [counts EXCEPT !.success = @ + 1]
               /\ files' = files
          ELSE IF result.t = "none"
          THEN UNCHANGED << results, counts, files >>
          ELSE /\ results' = Append(results, << ZipDocId(p), << >> >>)
               /\ counts' = [counts EXCEPT !.error = @ + 1]
               /\ files' = MoveFailed(files, p, moveOk)

(* the body of the as_completed loop for the future of item i *)
HandleFuture(i, moveOk) ==
    LET p == chunk[i]
        result == _process_wrapper(p)
    IN /\ pending' = pending \ {i}
       /\ hist' = [hist EXCEPT !.calls[i] = @ + 1,
                               !.errs[i] = IF result.t = "raise" THEN @ + 1 ELSE @,
                               !.reextract = @ \/ (process_func = "process_zip_file"
                                                   /\ is_processed(ledger, ZipDocId(p), TRUE))]
       /\ IF result.t = "val"
          THEN /\ results' = Append(results, result.v)
               /\ counts' = [counts EXCEPT !.success = @ + 1]
               /\ files' = files
          ELSE IF result.t = "none"
          THEN UNCHANGED << results, counts, files >>
          ELSE /\ results' = results
               /\ counts' = [counts EXCEPT !.error = @ + 1]
               /\ files' = MoveFailed(files, p, moveOk)

(* one future completes; completion order is the scheduler's choice *)
TaskComplete ==
    /\ pc = "exec"
    /\ \E i \in pending :
         \E moveOk \in BOOLEAN :
            /\ moveOk \/ (faults < MaxFaults /\ errorDir # "none"
                          /\ _process_wrapper(chunk[i]).t = "raise")
            /\ faults' = IF moveOk THEN faults ELSE faults + 1
            /\ HandleFuture(i, moveOk)
    /\ UNCHANGED << kind, store, ledger, pc, todo, ci, chunk, process_func, work,
                    id_extractor, candidates,
                    document, arg, ret, temp_dir, tmpdirs,
                    errorDir, ri, buffer, err, run >>

-----------------------------------------------------------------------------
(* EtlRunner.run *)
Min(a, b) == IF a < b THEN a ELSE b

(* the orders in which glob may list a set of paths *)
Listings(S) ==
    { s \in [1..Cardinality(S) -> S] : \A i, j \in 1..Cardinality(S) : s[i] = s[j] => i = j }

(* files_to_process[i : i + processing_chunk_size], with i counted from 1 *)
ChunkAt(files_to_process, i, size) ==
    SubSeq(files_to_process, i, Min(i + size - 1, Len(files_to_process)))

(* f"{doc_id}.zip" *)
LedgerPath(doc_id) == doc_id \o << ".", "zip" >>

Volatile0 ==
    /\ todo' = << >>
    /\ ci' = 1
    /\ chunk' = << >>
    /\ pending' = {}
    /\ results' = << >>
    /\ ri' = 1
    /\ buffer' = << >>
    /\ err' = Null
    /\ counts' = Counts0

(* Discover and Filter, lines 108-121 *)
StartRun ==
    /\ pc = "idle"
    /\ run < MaxRuns
    /\ \E all_zips \in Listings(files), readOk \in BOOLEAN :
         LET files_to_process == filter_unprocessed_files(ledger, all_zips, id_extractor, readOk)
         IN /\ readOk \/ (faults < MaxFaults /\ _get_all_processed_ids(ledger, TRUE) # {})
            /\ faults' = IF readOk THEN faults ELSE faults + 1
            /\ todo' = files_to_process
            /\ pc' = IF files_to_process = << >> THEN "idle" ELSE "chunk"
            /\ hist' = [hist EXCEPT
                          !.store0 = store,
                          !.allOk0 = \A p \in files : is_processed(ledger, ZipDocId(p), TRUE),
                          !.flushFailed = {},
                          !.calls = Hist0.calls,
                          !.errs = Hist0.errs,
                          !.exit = IF files_to_process = << >> THEN "done" ELSE "none"]
    /\ run' = run + 1
    /\ process_func' = "process_zip_file"
    /\ errorDir' = FailedDir
    /\ ci' = 1
    /\ chunk' = << >>
    /\ pending' = {}
    /\ results' = << >>
    /\ ri' = 1
    /\ buffer' = << >>
    /\ err' = Null
    /\ counts' = Counts0
    /\ UNCHANGED << files, kind, store, ledger, work, id_extractor, candidates,
                    document, arg, ret, temp_dir, tmpdirs >>

(* mutant: the next chunk is submitted while results are still being persisted *)
SubmitChunk_Pipelined ==
    /\ pc \in { "chunk", "persist" }
    /\ IF ci > Len(todo)
       THEN /\ pc' = "idle"
            /\ hist' = [hist EXCEPT !.exit = "done"]
            /\ Volatile0
       ELSE LET next == IF pc = "persist" THEN ci + ChunkSize ELSE ci
            IN /\ pc' = "exec"
               /\ ci' = next
               /\ chunk' = ChunkAt(todo, next, ChunkSize)
               /\ pending' = 1..Len(chunk')
               /\ results' = << >>
               /\ counts' = Counts0
               /\ hist' = [hist EXCEPT !.calls = Hist0.calls, !.errs = Hist0.errs]
               /\ UNCHANGED << todo, ri, buffer, err >>
    /\ UNCHANGED << files, kind, store, ledger, process_func, work, id_extractor,
                    candidates,
                    document, arg, ret, temp_dir, tmpdirs, errorDir, run, faults >>

(* the head of the chunk loop and the submission of the chunk's tasks, lines 125-132 *)
SubmitChunk ==
    /\ pc = "chunk"
    /\ IF ci > Len(todo)
       THEN /\ pc' = "idle"
            /\ hist' = [hist EXCEPT !.exit = "done"]
            /\ Volatile0
       ELSE /\ pc' = "exec"
            /\ chunk' = ChunkAt(todo, ci, ChunkSize)
            /\ pending' = 1..Len(chunk')
            /\ results' = << >>
            /\ counts' = Counts0
            /\ hist' = [hist EXCEPT !.calls = Hist0.calls, !.errs = Hist0.errs]
            /\ UNCHANGED << todo, ci, ri, buffer, err >>
    /\ UNCHANGED << files, kind, store, ledger, process_func, work, id_extractor,
                    candidates,
                    document, arg, ret, temp_dir, tmpdirs, errorDir, run, faults >>

(* mutant: persistence starts without waiting for the futures still pending *)
BeginPersist_NoBarrier ==
    /\ pc = "exec"
    /\ pc' = "persist"
    /\ ri' = 1
    /\ buffer' = << >>
    /\ UNCHANGED << files, kind, store, ledger, todo, ci, chunk, pending, results,
                    process_func, work, id_extractor, candidates,
                    document, arg, ret, temp_dir, tmpdirs, errorDir, err, counts,
                    run, faults, hist >>

(* process_files returns once every future has completed; the sink is opened, line 139 *)
BeginPersist ==
    /\ pc = "exec"
    /\ pending = {}
    /\ pc' = "persist"
    /\ ri' = 1
    /\ buffer' = << >>
    /\ UNCHANGED << files, kind, store, ledger, todo, ci, chunk, pending, results,
                    process_func, work, id_extractor,
                    candidates,
                    document, arg, ret, temp_dir, tmpdirs, errorDir, err, counts, run, faults, hist >>

(* mutant: no explicit flush, the records wait for the size threshold or the close *)
PersistRecords_NoFlush(buf, st, records, dbOk) ==
    IF records # << >>
    THEN insert_many(buf, st, records, BatchSize, dbOk)
    ELSE Sink(buf, st, Null)

(* lines 148-152: insert_many and the explicit flush, only when there are records *)
PersistRecords(buf, st, records, dbOk) ==
    IF records # << >>
    THEN LET a == insert_many(buf, st, records, BatchSize, dbOk)
         IN IF a.raised = Null THEN flush(a.buffer, a.store, dbOk) ELSE a
    ELSE Sink(buf, st, Null)

(* the try block of the Persist loop up to the ledger update *)
PersistDoc ==
    /\ pc = "persist"
    /\ ri <= Len(results)
    /\ \E dbOk \in BOOLEAN :
         LET doc_id == results[ri][1]
             records == results[ri][2]
             s == PersistRecords(buffer, store, records, dbOk)
         IN /\ dbOk \/ (faults < MaxFaults /\ records # << >>)
            /\ faults' = IF dbOk THEN faults ELSE faults + 1
            /\ buffer' = s.buffer
            /\ store' = s.store
            /\ err' = s.raised
            /\ pc' = IF s.raised = Null THEN "mark" ELSE "markerr"
            /\ hist' = IF s.raised = Null THEN hist
                       ELSE [hist EXCEPT !.flushFailed = @ \cup {doc_id}]
    /\ UNCHANGED << files, kind, ledger, todo, ci, chunk, pending, results,
                    process_func, work, id_extractor,
                    candidates,
                    document, arg, ret, temp_dir, tmpdirs, errorDir, ri, counts, run >>

(* mutant: a failed ledger write propagates and ends the run *)
MarkSuccess_RaiseOnWriteFailure ==
    /\ pc = "mark"
    /\ \E writeOk \in BOOLEAN :
         LET doc_id == results[ri][1]
         IN /\ writeOk \/ faults < MaxFaults
            /\ faults' = IF writeOk THEN faults ELSE faults + 1
            /\ ledger' = mark_as_processed(ledger, doc_id, LedgerPath(doc_id), writeOk)
            /\ hist' = [Marked(hist, doc_id, "success", Null, writeOk)
                           EXCEPT !.exit = IF writeOk THEN @ ELSE "raised"]
            /\ IF writeOk
               THEN /\ ri' = ri + 1
                    /\ pc' = "persist"
                    /\ UNCHANGED << todo, ci, chunk, pending, results, buffer, err, counts >>
               ELSE /\ pc' = "idle"
                    /\ Volatile0
    /\ UNCHANGED << files, kind, store, process_func, work, id_extractor, candidates,
                    document, arg, ret, temp_dir, tmpdirs,
                    errorDir, run >>

(* line 160: mark_as_processed after the flush has returned *)
MarkSuccess ==
    /\ pc = "mark"
    /\ \E writeOk \in BOOLEAN :
         LET doc_id == results[ri][1]
         IN /\ writeOk \/ faults < MaxFaults
            /\ faults' = IF writeOk THEN faults ELSE faults + 1
            /\ ledger' = mark_as_processed(ledger, doc_id, LedgerPath(doc_id), writeOk)
            /\ hist' = Marked(hist, doc_id, "success", Null, writeOk)
    /\ ri' = ri + 1
    /\ pc' = "persist"
    /\ UNCHANGED << files, kind, store, todo, ci, chunk, pending, results,
                    process_func, work, id_extractor,
                    candidates,
                    document, arg, ret, temp_dir, tmpdirs, errorDir, buffer, err, counts, run >>

(* lines 163-171: the except branch records the error and continues *)
MarkError ==
    /\ pc = "markerr"
    /\ \E writeOk \in BOOLEAN :
         LET doc_id == results[ri][1]
         IN /\ writeOk \/ faults < MaxFaults
            /\ faults' = IF writeOk THEN faults ELSE faults + 1
            /\ ledger' = mark_as_error(ledger, doc_id, LedgerPath(doc_id), err, writeOk)
            /\ hist' = Marked(hist, doc_id, "error", err, writeOk)
    /\ ri' = ri + 1
    /\ pc' = "persist"
    /\ err' = Null
    /\ UNCHANGED << files, kind, store, todo, ci, chunk, pending, results,
                    process_func, work, id_extractor,
                    candidates,
                    document, arg, ret, temp_dir, tmpdirs, errorDir, buffer, counts, run >>

(* __exit__ of the sink after the last result: close flushes what is buffered; *)
(* an exception of that flush leaves run                                        *)
CloseSink ==
    /\ pc = "persist"
    /\ ri > Len(results)
    /\ \E dbOk \in BOOLEAN :
         LET s == close(buffer, store, dbOk)
         IN /\ dbOk \/ (faults < MaxFaults /\ buffer # << >>)
            /\ faults' = IF dbOk THEN faults ELSE faults + 1
            /\ store' = s.store
            /\ IF s.raised = Null
               THEN /\ pc' = "chunk"
                    /\ ci' = ci + ChunkSize
                    /\ buffer' = << >>
                    /\ UNCHANGED << todo, chunk, pending, results, ri, err, counts, hist >>
               ELSE /\ pc' = "idle"
                    /\ hist' = [hist EXCEPT !.exit = "raised"]
                    /\ Volatile0
    /\ UNCHANGED << files, kind, ledger, process_func, work, id_extractor,
                    candidates,
                    document, arg, ret, temp_dir, tmpdirs, errorDir, run >>

(* the process dies: what is not committed is lost *)
Crash ==
    /\ pc \in { "chunk", "exec", "persist", "mark", "markerr" }
    /\ faults < MaxFaults
    /\ faults' = faults + 1
    /\ pc' = "idle"
    /\ hist' = [hist EXCEPT !.exit = "crashed"]
    /\ Volatile0
    /\ UNCHANGED << files, kind, store, ledger, process_func, work, id_extractor,
                    candidates,
                    document, arg, ret, temp_dir, tmpdirs, errorDir, run >>

Init ==
    /\ files = { Path(TopDir, f) : f \in Files }
    /\ kind \in [Files -> Kinds]
    /\ store = EmptyStore
    /\ ledger = {}
    /\ pc = "idle"
    /\ todo = << >>
    /\ ci = 1
    /\ chunk = << >>
    /\ pending = {}
    /\ results = << >>
    /\ process_func = "process_zip_file"
    /\ work = [p \in Paths |-> None]
    /\ id_extractor = [p \in Paths |-> Val(FilterDocId(p))]
    /\ candidates = << >>
    /\ document = << >>
    /\ arg = None
    /\ ret = None
    /\ temp_dir = [i \in Slots |-> Null]
    /\ tmpdirs = {}
    /\ errorDir = FailedDir
    /\ ri = 1
    /\ buffer = << >>
    /\ err = Null
    /\ counts = Counts0
    /\ run = 0
    /\ faults = 0
    /\ hist = Hist0

Next ==
    \/ StartRun
    \/ SubmitChunk
    \/ TaskComplete
    \/ BeginPersist
    \/ PersistDoc
    \/ MarkSuccess
    \/ MarkError
    \/ CloseSink
    \/ Crash

Spec == Init /\ [][Next]_vars

-----------------------------------------------------------------------------
(* process_files on its own: any list of items, any work function *)
RECURSIVE ListsUpTo(_, _)
ListsUpTo(S, n) ==
    IF n = 0 THEN { << >> }
    ELSE LET shorter == ListsUpTo(S, n - 1)
         IN shorter \cup { Append(l, x) : l \in { m \in shorter : Len(m) = n - 1 }, x \in S }

TopPaths == { Path(TopDir, f) : f \in Files }

(* what a work function may do with an item: return a value, return None, raise *)
Outcomes(p) == { Val(<< basename(p), << >> >>), None, Raise("Error") }

ExecInit ==
    /\ files = TopPaths
    /\ kind = [f \in Files |-> "ok"]
    /\ store = EmptyStore
    /\ ledger = {}
    /\ pc = "exec"
    /\ todo = << >>
    /\ ci = 1
    /\ chunk \in ListsUpTo(TopPaths, MaxItems)
    /\ pending = 1..Len(chunk)
    /\ results = << >>
    /\ process_func = "generic"
    /\ work \in { w \in [Paths -> UNION { Outcomes(p) : p \in Paths }] :
                    \A p \in Paths : w[p] \in Outcomes(p) /\ (p \notin TopPaths => w[p] = None) }
    /\ id_extractor = [p \in Paths |-> Val(FilterDocId(p))]
    /\ candidates = << >>
    /\ document = << >>
    /\ arg = None
    /\ ret = None
    /\ temp_dir = [i \in Slots |-> Null]
    /\ tmpdirs = {}
    /\ errorDir \in { "none", FailedDir }
    /\ ri = 1
    /\ buffer = << >>
    /\ err = Null
    /\ counts = Counts0
    /\ run = 0
    /\ faults = 0
    /\ hist = Hist0

(* lines 75-77 and 127: the list of results is returned *)
ExecReturn ==
    /\ pc = "exec"
    /\ pending = {}
    /\ pc' = "returned"
    /\ UNCHANGED << files, kind, store, ledger, todo, ci, chunk, pending, results,
                    process_func, work, id_extractor,
                    candidates,
                    document, arg, ret, temp_dir, tmpdirs, errorDir, ri, buffer, err, counts, run, faults, hist >>

ExecNext ==
    \/ TaskComplete
    \/ ExecReturn

ExecSpec == ExecInit /\ [][ExecNext]_vars

-----------------------------------------------------------------------------
(* ResumeRegistry on its own: any sequence of mark calls *)
Msgs == { "rejected", "unavailable" }

RegInit ==
    /\ files = TopPaths
    /\ kind = [f \in Files |-> "ok"]
    /\ store = EmptyStore
    /\ ledger = {}
    /\ pc = "registry"
    /\ todo = << >>
    /\ ci = 1
    /\ chunk = << >>
    /\ pending = {}
    /\ results = << >>
    /\ process_func = "process_zip_file"
    /\ work = [p \in Paths |-> None]
    /\ id_extractor = [p \in Paths |-> Val(FilterDocId(p))]
    /\ candidates = << >>
    /\ document = << >>
    /\ arg = None
    /\ ret = None
    /\ temp_dir = [i \in Slots |-> Null]
    /\ tmpdirs = {}
    /\ errorDir = FailedDir
    /\ ri = 1
    /\ buffer = << >>
    /\ err = Null
    /\ counts = Counts0
    /\ run = 0
    /\ faults = 0
    /\ hist = Hist0

RegMarkSuccess ==
    /\ pc = "registry"
    /\ hist.ncalls < MaxCalls
    /\ \E d \in DocIds, writeOk \in BOOLEAN :
         /\ writeOk \/ faults < MaxFaults
         /\ faults' = IF writeOk THEN faults ELSE faults + 1
         /\ ledger' = mark_as_processed(ledger, d, LedgerPath(d), writeOk)
         /\ hist' = Marked(hist, d, "success", Null, writeOk)
    /\ UNCHANGED << files, kind, store, pc, todo, ci, chunk, pending, results,
                    process_func, work, id_extractor,
                    candidates,
                    document, arg, ret, temp_dir, tmpdirs, errorDir, ri, buffer, err, counts, run >>

RegMarkError ==
    /\ pc = "registry"
    /\ hist.ncalls < MaxCalls
    /\ \E d \in DocIds, m \in Msgs, writeOk \in BOOLEAN :
         /\ writeOk \/ faults < MaxFaults
         /\ faults' = IF writeOk THEN faults ELSE faults + 1
         /\ ledger' = mark_as_error(ledger, d, LedgerPath(d), m, writeOk)
         /\ hist' = Marked(hist, d, "error", m, writeOk)
    /\ UNCHANGED << files, kind, store, pc, todo, ci, chunk, pending, results,
                    process_func, work, id_extractor,
                    candidates,
                    document, arg, ret, temp_dir, tmpdirs, errorDir, ri, buffer, err, counts, run >>

RegNext ==
    \/ RegMarkSuccess
    \/ RegMarkError

RegSpec == RegInit /\ [][RegNext]_vars

-----------------------------------------------------------------------------
(* ResumeRegistry.filter_unprocessed_files on its own: any ledger, any list of *)
(* paths, any id extractor                                                      *)
EntryChoices == [DocIds -> { "none", "success", "error" }]

(* the ledger the mark calls leave behind: at most one row per doc_id *)
LedgerOf(c) ==
    { LedgerRow(d, LedgerPath(d), c[d], IF c[d] = "error" THEN "rejected" ELSE Null) :
        d \in { x \in DocIds : c[x] # "none" } }

(* what an id extractor may do with a path: return some id, or raise *)
ExtractorOutcomes(p) ==
    { Val(d) : d \in DocIds } \cup { Val(FilterDocId(p)), Raise("ValueError") }

FilterInit ==
    /\ files = TopPaths
    /\ kind = [f \in Files |-> "ok"]
    /\ store = EmptyStore
    /\ ledger \in { LedgerOf(c) : c \in EntryChoices }
    /\ pc = "filter"
    /\ todo = << >>
    /\ ci = 1
    /\ chunk = << >>
    /\ pending = {}
    /\ results = << >>
    /\ process_func = "process_zip_file"
    /\ work = [p \in Paths |-> None]
    /\ id_extractor \in
          { x \in [Paths -> UNION { ExtractorOutcomes(p) : p \in Paths }] :
              \A p \in Paths :
                  x[p] \in (IF p \in TopPaths THEN ExtractorOutcomes(p)
                                              ELSE { Val(FilterDocId(p)) }) }
    /\ candidates \in ListsUpTo(TopPaths, MaxItems)
    /\ document = << >>
    /\ arg = None
    /\ ret = None
    /\ temp_dir = [i \in Slots |-> Null]
    /\ tmpdirs = {}
    /\ errorDir = FailedDir
    /\ ri = 1
    /\ buffer = << >>
    /\ err = Null
    /\ counts = Counts0
    /\ run = 0
    /\ faults = 0
    /\ hist = Hist0

(* one call of filter_unprocessed_files; the bulk read of the ledger may fail *)
FilterCall ==
    /\ pc = "filter"
    /\ \E readOk \in BOOLEAN :
         /\ readOk \/ faults < MaxFaults
         /\ faults' = IF readOk THEN faults ELSE faults + 1
         /\ todo' = filter_unprocessed_files(ledger, candidates, id_extractor, readOk)
    /\ pc' = "filtered"
    /\ UNCHANGED << files, kind, store, ledger, ci, chunk, pending, results, process_func,
                    work, id_extractor, candidates,
                    document, arg, ret, temp_dir, tmpdirs, errorDir, ri, buffer, err, counts,
                    run, hist >>

FilterNext ==
    \/ FilterCall

FilterSpec == FilterInit /\ [][FilterNext]_vars

-----------------------------------------------------------------------------
(* ContextHandler on its own: any context identifier, or None *)
ContextPieces ==
    { "CurrentYear", "Prior1Year", "Non", "Consolidated", "Instant", "Duration", "_" }

ContextIds == ListsUpTo(ContextPieces, MaxIdLen)

(* the name of the document file inside an archive *)
ContextInit ==
    /\ files = TopPaths
    /\ kind = [f \in Files |-> "ok"]
    /\ store = EmptyStore
    /\ ledger = {}
    /\ pc = "context"
    /\ todo = << >>
    /\ ci = 1
    /\ chunk = << >>
    /\ pending = {}
    /\ results = << >>
    /\ process_func = "process_zip_file"
    /\ work = [p \in Paths |-> None]
    /\ id_extractor = [p \in Paths |-> Val(FilterDocId(p))]
    /\ candidates = << >>
    /\ document = << >>
    /\ arg \in { None } \cup { Val(c) : c \in ContextIds }
    /\ ret = None
    /\ temp_dir = [i \in Slots |-> Null]
    /\ tmpdirs = {}
    /\ errorDir = FailedDir
    /\ ri = 1
    /\ buffer = << >>
    /\ err = Null
    /\ counts = Counts0
    /\ run = 0
    /\ faults = 0
    /\ hist = Hist0

(* ContextHandler.is_consolidated_current(arg) *)
CallIsConsolidatedCurrent ==
    /\ pc = "context"
    /\ pc' = "classified"
    /\ ret' = Val(<< is_consolidated_current(arg) >>)
    /\ UNCHANGED << files, kind, store, ledger, todo, ci, chunk, pending, results,
                    process_func, work, id_extractor, candidates, document, arg,
                    temp_dir, tmpdirs, errorDir, ri, buffer, err, counts, run, faults, hist >>

(* ContextHandler.get_period_type(arg) *)
CallGetPeriodType ==
    /\ pc = "context"
    /\ pc' = "typed"
    /\ ret' = get_period_type(arg)
    /\ UNCHANGED << files, kind, store, ledger, todo, ci, chunk, pending, results,
                    process_func, work, id_extractor, candidates, document, arg,
                    temp_dir, tmpdirs, errorDir, ri, buffer, err, counts, run, faults, hist >>

(* XbrlParser.parse of a document whose one numeric element has contextRef arg *)
CallParseOne ==
    /\ pc = "context"
    /\ pc' = "parsed"
    /\ document' = << Tag(<< "NetSales" >>, arg, << "1000000" >>, Val(<< "JPY" >>), None) >>
    /\ ret' = Val(parse(InnerName, document'))
    /\ UNCHANGED << files, kind, store, ledger, todo, ci, chunk, pending, results,
                    process_func, work, id_extractor, candidates, arg,
                    temp_dir, tmpdirs, errorDir, ri, buffer, err, counts, run, faults, hist >>

ContextNext ==
    \/ CallIsConsolidatedCurrent
    \/ CallGetPeriodType
    \/ CallParseOne

ContextSpec == ContextInit /\ [][ContextNext]_vars

-----------------------------------------------------------------------------
(* XbrlParser.parse on its own: any document of up to NumFacts elements *)
TagNames ==
    { << "NetSales" >>, << "jpcrp", ":", "Notes", "TextBlock" >>, << "xbrl" >>,
      << "link", ":", "loc" >> }

InstantContext == Val(<< "CurrentYear", "Consolidated", "_", "Instant" >>)

(* blank; a number; 500 characters between blanks; 501 characters *)
Texts ==
    { << Blank >>, << "1000000" >>, << Blank, Filler, "x", Blank >>, << Filler, "x", "x" >> }

(* unitRef and decimals: neither, a unit, a precision *)
NumericAttrs == { << None, None >>, << Val(<< "JPY" >>), None >>, << None, Val(<< "0" >>) >> }

(* every element with a contextRef, and the elements with a number as text   *)
(* without one                                                                 *)
Elements ==
    { Tag(n, InstantContext, t, a[1], a[2]) : n \in TagNames, t \in Texts,
                                              a \in NumericAttrs }
    \cup { Tag(n, None, << "1000000" >>, a[1], a[2]) : n \in TagNames, a \in NumericAttrs }

ParseInit ==
    /\ files = TopPaths
    /\ kind = [f \in Files |-> "ok"]
    /\ store = EmptyStore
    /\ ledger = {}
    /\ pc = "parse"
    /\ todo = << >>
    /\ ci = 1
    /\ chunk = << >>
    /\ pending = {}
    /\ results = << >>
    /\ process_func = "process_zip_file"
    /\ work = [p \in Paths |-> None]
    /\ id_extractor = [p \in Paths |-> Val(FilterDocId(p))]
    /\ candidates = << >>
    /\ document \in ListsUpTo(Elements, NumFacts)
    /\ arg = None
    /\ ret = None
    /\ temp_dir = [i \in Slots |-> Null]
    /\ tmpdirs = {}
    /\ errorDir = FailedDir
    /\ ri = 1
    /\ buffer = << >>
    /\ err = Null
    /\ counts = Counts0
    /\ run = 0
    /\ faults = 0
    /\ hist = Hist0

(* XbrlParser(target_xbrl).parse() *)
CallParse ==
    /\ pc = "parse"
    /\ pc' = "parsed"
    /\ ret' = Val(parse(InnerName, document))
    /\ UNCHANGED << files, kind, store, ledger, todo, ci, chunk, pending, results,
                    process_func, work, id_extractor, candidates, document, arg,
                    temp_dir, tmpdirs, errorDir, ri, buffer, err, counts, run, faults, hist >>

ParseNext ==
    \/ CallParse

ParseSpec == ParseInit /\ [][ParseNext]_vars

-----------------------------------------------------------------------------
(* ValueNormalizer.normalize on its own, and through the parser: any text of  *)
(* up to MaxValueLen pieces, any hints                                         *)
ValuePieces == { Blank, "-", ".", "1", "2", "5", "e", "nan", "inf" }

Values == { None } \cup { Val(s) : s \in ListsUpTo(ValuePieces, MaxValueLen) }

(* unit_ref and decimals *)
Hints == { << None, None >>, << Val(<< "JPY" >>), None >>, << None, Val(<< "-", "3" >>) >> }

NormInit ==
    /\ files = TopPaths
    /\ kind = [f \in Files |-> "ok"]
    /\ store = EmptyStore
    /\ ledger = {}
    /\ pc = "normalize"
    /\ todo = << >>
    /\ ci = 1
    /\ chunk = << >>
    /\ pending = {}
    /\ results = << >>
    /\ process_func = "process_zip_file"
    /\ work = [p \in Paths |-> None]
    /\ id_extractor = [p \in Paths |-> Val(FilterDocId(p))]
    /\ candidates = << >>
    /\ arg \in Values
    /\ \E h \in Hints :
          document = << Tag(<< "NetSales" >>, InstantContext, arg.v, h[1], h[2]) >>
    /\ ret = None
    /\ temp_dir = [i \in Slots |-> Null]
    /\ tmpdirs = {}
    /\ errorDir = FailedDir
    /\ ri = 1
    /\ buffer = << >>
    /\ err = Null
    /\ counts = Counts0
    /\ run = 0
    /\ faults = 0
    /\ hist = Hist0

(* ValueNormalizer.normalize(value, decimals, unit_ref) *)
CallNormalize ==
    /\ pc = "normalize"
    /\ pc' = "normalized"
    /\ ret' = Val(normalize(arg, document[1].decimals, document[1].unitRef))
    /\ UNCHANGED << files, kind, store, ledger, todo, ci, chunk, pending, results,
                    process_func, work, id_extractor, candidates, document, arg,
                    temp_dir, tmpdirs, errorDir, ri, buffer, err, counts, run, faults, hist >>

(* parse of a document whose one element has the value as text and the hints  *)
(* as attributes                                                               *)
CallParseValue ==
    /\ pc = "normalize"
    /\ arg # None
    /\ pc' = "parsed"
    /\ ret' = Val(parse(InnerName, document))
    /\ UNCHANGED << files, kind, store, ledger, todo, ci, chunk, pending, results,
                    process_func, work, id_extractor, candidates, document, arg,
                    temp_dir, tmpdirs, errorDir, ri, buffer, err, counts, run, faults, hist >>

NormNext ==
    \/ CallNormalize
    \/ CallParseValue

NormSpec == NormInit /\ [][NormNext]_vars

-----------------------------------------------------------------------------
(* FinancialDbClient on its own: up to MaxCalls calls of insert_record,        *)
(* insert_many and flush on one client                                          *)
ClientBatchSize == 3

(* the records handed to the client: one the store takes and one it refuses *)
ClientRows == { r \in Rows : r.doc_id = << "A" >> /\ r.k = 1 }

ClientInit ==
    /\ files = TopPaths
    /\ kind = [f \in Files |-> "ok"]
    /\ store = EmptyStore
    /\ ledger = {}
    /\ pc = "client"
    /\ todo = << >>
    /\ ci = 1
    /\ chunk = << >>
    /\ pending = {}
    /\ results = << >>
    /\ process_func = "process_zip_file"
    /\ work = [p \in Paths |-> None]
    /\ id_extractor = [p \in Paths |-> Val(FilterDocId(p))]
    /\ candidates = << >>
    /\ document = << >>
    /\ arg = None
    /\ ret = None
    /\ temp_dir = [i \in Slots |-> Null]
    /\ tmpdirs = {}
    /\ errorDir = FailedDir
    /\ ri = 1
    /\ buffer = << >>
    /\ err = Null
    /\ counts = Counts0
    /\ run = 0
    /\ faults = 0
    /\ hist = Hist0

(* what a call of the client leaves behind; arg keeps the records it was given *)
ClientCall(s, records, label, dbOk) ==
    /\ hist.ncalls < MaxCalls
    /\ dbOk \/ faults < MaxFaults
    /\ faults' = IF dbOk THEN faults ELSE faults + 1
    /\ buffer' = s.buffer
    /\ store' = s.store
    /\ err' = s.raised
    /\ arg' = Val(records)
    /\ pc' = label
    /\ hist' = [hist EXCEPT !.ncalls = @ + 1]
    /\ UNCHANGED << files, kind, ledger, todo, ci, chunk, pending, results, process_func,
                    work, id_extractor, candidates, document, ret, temp_dir, tmpdirs,
                    errorDir, ri, counts, run >>

(* insert_record(record): append, flush at the threshold *)
ClientInsertRecord ==
    /\ pc \in { "client", "inserted", "flushed" }
    /\ \E r \in ClientRows, dbOk \in BOOLEAN :
         /\ dbOk \/ Len(buffer) + 1 >= ClientBatchSize
         /\ ClientCall(insert_many(buffer, store, << r >>, ClientBatchSize, dbOk),
                       << r >>, "inserted", dbOk)

(* insert_many(records) *)
ClientInsertMany ==
    /\ pc \in { "client", "inserted", "flushed" }
    /\ \E records \in ListsUpTo(ClientRows, 2), dbOk \in BOOLEAN :
         /\ dbOk \/ Len(buffer) + Len(records) >= ClientBatchSize
         /\ ClientCall(insert_many(buffer, store, records, ClientBatchSize, dbOk),
                       records, "inserted", dbOk)

(* flush() *)
ClientFlush ==
    /\ pc \in { "client", "inserted", "flushed" }
    /\ \E dbOk \in BOOLEAN :
         /\ dbOk \/ buffer # << >>
         /\ ClientCall(flush(buffer, store, dbOk), << >>, "flushed", dbOk)

ClientNext ==
    \/ ClientInsertRecord
    \/ ClientInsertMany
    \/ ClientFlush

ClientSpec == ClientInit /\ [][ClientNext]_vars

-----------------------------------------------------------------------------
(* The pipeline end to end: one archive B_x.zip whose inner document is parsed *)
NetSalesFact == Tag(<< "NetSales" >>, InstantContext, << "1000000" >>, Val(<< "JPY" >>), None)

LongTextBlockFact ==
    Tag(<< "jpcrp", ":", "Notes", "TextBlock" >>, InstantContext, << Filler, "x", "x" >>,
        None, None)

ShortTextFact == Tag(<< "NetSales" >>, InstantContext, << Blank, Filler, "x", Blank >>, None, None)

E2EElements ==
    { NetSalesFact, LongTextBlockFact, ShortTextFact,
      Tag(<< "xbrl" >>, None, << "1000000" >>, None, None) }

TheArchive == Path(TopDir, Zip(<< "B", "_", "x" >>))

E2EInit ==
    /\ files = { TheArchive }
    /\ kind = [f \in Files |-> "doc"]
    /\ store = EmptyStore
    /\ ledger = {}
    /\ pc = "idle"
    /\ todo = << >>
    /\ ci = 1
    /\ chunk = << >>
    /\ pending = {}
    /\ results = << >>
    /\ process_func = "process_zip_file"
    /\ work = [p \in Paths |-> None]
    /\ id_extractor = [p \in Paths |-> Val(FilterDocId(p))]
    /\ candidates = << >>
    /\ document \in ListsUpTo(E2EElements, NumFacts)
    /\ arg = None
    /\ ret = None
    /\ temp_dir = [i \in Slots |-> Null]
    /\ tmpdirs = {}
    /\ errorDir = FailedDir
    /\ ri = 1
    /\ buffer = << >>
    /\ err = Null
    /\ counts = Counts0
    /\ run = 0
    /\ faults = 0
    /\ hist = Hist0

E2ESpec == E2EInit /\ [][Next]_vars

-----------------------------------------------------------------------------
(* The tasks of one chunk in their worker processes, with their extraction     *)
(* directories                                                                  *)
(* what the work function can meet in an archive *)
WorkerKinds == { "ok", "nodoc", "badzip", "unparsable" }

(* the names mkdtemp may give *)
TmpNames == { "tmp" \o ToString(n) : n \in 1..(ChunkSize + 1) }

Running(i) == i \in pending /\ temp_dir[i] # Null

WorkerInit ==
    /\ files = TopPaths
    /\ chunk \in { c \in ListsUpTo(TopPaths, ChunkSize) :
                      \A i, j \in 1..Len(c) : c[i] = c[j] => i = j }
    /\ kind \in { k \in [Files -> WorkerKinds] :
                     \A f \in Files :
                         (\A i \in 1..Len(chunk) : basename(chunk[i]) # f) => k[f] = "ok" }
    /\ store = EmptyStore
    /\ ledger = {}
    /\ pc = "work"
    /\ todo = chunk
    /\ ci = 1
    /\ pending = 1..Len(chunk)
    /\ results = << >>
    /\ process_func = "process_zip_file"
    /\ work = [p \in Paths |-> None]
    /\ id_extractor = [p \in Paths |-> Val(FilterDocId(p))]
    /\ candidates = << >>
    /\ document = << >>
    /\ arg = None
    /\ ret = None
    /\ temp_dir = [i \in Slots |-> Null]
    /\ tmpdirs = {}
    /\ errorDir = FailedDir
    /\ ri = 1
    /\ buffer = << >>
    /\ err = Null
    /\ counts = Counts0
    /\ run = 1
    /\ faults = 0
    /\ hist = Hist0

(* line 36: temp_dir = tempfile.mkdtemp() makes a directory that did not exist; *)
(* when it cannot, the call raises before the try block is entered              *)
WorkerStart ==
    /\ pc = "work"
    /\ \E i \in pending :
         /\ temp_dir[i] = Null
         /\ \E mkOk \in BOOLEAN :
              /\ mkOk \/ faults < MaxFaults
              /\ faults' = IF mkOk THEN faults ELSE faults + 1
              /\ IF mkOk
                 THEN \E d \in TmpNames \ tmpdirs :
                         /\ temp_dir' = [temp_dir EXCEPT ![i] = d]
                         /\ tmpdirs' = tmpdirs \cup { d }
                         /\ UNCHANGED << pending, hist >>
                 ELSE /\ pending' = pending \ { i }
                      /\ hist' = [hist EXCEPT !.calls[i] = @ + 1, !.errs[i] = @ + 1]
                      /\ UNCHANGED << temp_dir, tmpdirs >>
    /\ UNCHANGED << files, kind, store, ledger, pc, todo, ci, chunk, results, process_func,
                    work, id_extractor, candidates, document, arg, ret, errorDir, ri,
                    buffer, err, counts, run >>

(* mutant: the directory is removed only when the function returns *)
WorkerExit_CleanupOnReturn ==
    /\ pc = "work"
    /\ \E i \in pending :
         LET result == process_zip_file(chunk[i], kind[basename(chunk[i])])
         IN /\ temp_dir[i] # Null
            /\ \E rmOk \in BOOLEAN :
                 /\ rmOk \/ faults < MaxFaults
                 /\ faults' = IF rmOk THEN faults ELSE faults + 1
                 /\ tmpdirs' = IF rmOk /\ result.t = "val" THEN tmpdirs \ { temp_dir[i] }
                                ELSE tmpdirs
            /\ pending' = pending \ { i }
            /\ results' = IF result.t = "val" THEN Append(results, result.v) ELSE results
            /\ hist' = [hist EXCEPT !.calls[i] = @ + 1,
                                    !.errs[i] = IF result.t = "raise" THEN @ + 1 ELSE @]
    /\ UNCHANGED << files, kind, store, ledger, pc, todo, ci, chunk, process_func, work,
                    id_extractor, candidates, document, arg, ret, temp_dir, errorDir, ri,
                    buffer, err, counts, run >>

(* lines 37-78: the try block returns or raises, and the finally clause runs   *)
(* shutil.rmtree(temp_dir, ignore_errors=True), which says nothing when the     *)
(* directory could not be removed                                               *)
WorkerExit ==
    /\ pc = "work"
    /\ \E i \in pending :
         LET result == process_zip_file(chunk[i], kind[basename(chunk[i])])
         IN /\ temp_dir[i] # Null
            /\ \E rmOk \in BOOLEAN :
                 /\ rmOk \/ faults < MaxFaults
                 /\ faults' = IF rmOk THEN faults ELSE faults + 1
                 /\ tmpdirs' = IF rmOk THEN tmpdirs \ { temp_dir[i] } ELSE tmpdirs
            /\ pending' = pending \ { i }
            /\ results' = IF result.t = "val" THEN Append(results, result.v) ELSE results
            /\ hist' = [hist EXCEPT !.calls[i] = @ + 1,
                                    !.errs[i] = IF result.t = "raise" THEN @ + 1 ELSE @]
    /\ UNCHANGED << files, kind, store, ledger, pc, todo, ci, chunk, process_func, work,
                    id_extractor, candidates, document, arg, ret, temp_dir, errorDir, ri,
                    buffer, err, counts, run >>

WorkerNext ==
    \/ WorkerStart
    \/ WorkerExit

WorkerSpec == WorkerInit /\ [][WorkerNext]_vars

-----------------------------------------------------------------------------
(* Properties *)

(* the result of the worker for the archive at path p *)
ZipResult(p) == process_zip_file(p, kind[basename(p)])

(* the rows the archive at path p contributes *)
RowsOf(p) ==
    IF ZipResult(p).t = "val"
    THEN { ZipResult(p).v[2][j] : j \in 1..Len(ZipResult(p).v[2]) }
    ELSE {}

HasStatus(d, status) == \E r \in ledger : r.doc_id = d /\ r.status = status

(* every archive is well-formed and the store accepts its facts *)
AllGood == \A f \in Files : kind[f] \in { "ok", "nodoc" }

(* C1: in runs over well-formed, writable archives without any crash or        *)
(* environment fault (a case of "any sequence of runs over the same source      *)
(* directory"), the store never holds more than one copy of any fact row of     *)
(* any doc_id.                                                                  *)
C1_FactsExactlyOnce ==
    (faults = 0 /\ AllGood) => \A r \in Rows : store[r] <= 1

(* C2: a second run over the same directory, with no crash or fault and every *)
(* archive marked success by the first run, inserts no fact row.               *)
C2_SecondRunInsertsNothing ==
    (run = 2 /\ faults = 0 /\ hist.allOk0) => store = hist.store0

(* C3: for every archive that has a ledger entry, the doc_id the filter's      *)
(* extractor derives is the file-name stem before the first underscore and is  *)
(* the doc_id the runner recorded in the ledger.                               *)
C3_FilterIdIsLedgerId ==
    \A p \in files :
        (\E r \in ledger : r.doc_id = ZipDocId(p)) =>
            /\ FilterDocId(p) = SplitFirst(SplitExtRoot(basename(p)), "_")
            /\ FilterDocId(p) = ZipDocId(p)

(* C4: a success entry for a document with facts implies that all its facts   *)
(* are committed, in every reachable state (also after a crash); and the       *)
(* ledger update for a document is reached only with its facts committed by    *)
(* this run.                                                                   *)
C4_SuccessImpliesCommitted ==
    /\ \A p \in files :
          HasStatus(ZipDocId(p), "success") => \A r \in RowsOf(p) : store[r] >= 1
    /\ pc = "mark" =>
          \A j \in 1..Len(results[ri][2]) :
              store[results[ri][2][j]] > hist.store0[results[ri][2][j]]

(* C4 witness: a crash has happened and a document with facts is marked success *)
C4_Witness ==
    /\ hist.exit = "crashed"
    /\ \E p \in files : kind[basename(p)] = "ok" /\ HasStatus(ZipDocId(p), "success")

(* C5: without environment faults, the flush raises only for a document whose *)
(* own facts the store rejects: a failing document does not make the           *)
(* documents after it in the chunk fail.                                       *)
C5_FailureStaysLocal ==
    faults = 0 =>
        \A p \in files : ZipDocId(p) \in hist.flushFailed => kind[basename(p)] = "rej"

(* C6: the facts of a document whose flush failed in this run are written by  *)
(* no later flush and not by the close of the sink.                            *)
C6_FailedFactsDiscarded ==
    \A d \in hist.flushFailed :
        \A r \in Rows : r.doc_id = d => store[r] = hist.store0[r]

(* C7: when process_files returns, the work function has been invoked once for *)
(* every item, and the returned list holds exactly the non-null results of the  *)
(* invocations that did not raise.                                              *)
C7_EveryItemOnce ==
    pc = "returned" =>
        LET n == Len(chunk)
            out(i) == _process_wrapper(chunk[i])
            vals == { out(i).v : i \in { k \in 1..n : out(k).t = "val" } }
                    \cup { results[k] : k \in 1..Len(results) }
        IN /\ \A i \in 1..n : hist.calls[i] = 1
           /\ Len(results) = Cardinality({ i \in 1..n : out(i).t = "val" })
           /\ \A v \in vals :
                 Occurrences(results, v) =
                     Cardinality({ i \in 1..n : out(i).t = "val" /\ out(i).v = v })

(* C7 witness: a returned batch with a raising item, a null item and a result *)
C7_Witness ==
    /\ pc = "returned"
    /\ \E i, j, k \in 1..Len(chunk) :
          /\ _process_wrapper(chunk[i]).t = "raise"
          /\ _process_wrapper(chunk[j]).t = "none"
          /\ _process_wrapper(chunk[k]).t = "val"
    /\ Len(results) = 1

(* C8: a corrupted archive never has fact rows or a success entry; once its    *)
(* chunk's tasks are done it has exactly one failure outcome and, the move      *)
(* succeeding, sits in quarantine; and at the end of a fault-free chunk whose   *)
(* other archives are well-formed and writable, each of them is committed and   *)
(* marked success.                                                              *)
C8_CorruptArchiveIsolated ==
    /\ \A p \in files :
          kind[basename(p)] = "badzip" =>
              /\ \A r \in Rows : r.doc_id = ZipDocId(p) => store[r] = 0
              /\ ~HasStatus(ZipDocId(p), "success")
    /\ (process_func = "process_zip_file" /\ pc \in { "persist", "mark", "markerr" }) =>
          \A i \in 1..Len(chunk) :
              kind[basename(chunk[i])] = "badzip" =>
                  /\ hist.calls[i] = 1
                  /\ hist.errs[i] = 1
                  /\ faults = 0 => Path(FailedDir, basename(chunk[i])) \in files
    /\ (pc = "chunk" /\ faults = 0 /\ chunk # << >>
        /\ \A i \in 1..Len(chunk) : kind[basename(chunk[i])] # "rej") =>
          \A i \in 1..Len(chunk) :
              kind[basename(chunk[i])] \in { "ok", "nodoc" } =>
                  /\ HasStatus(ZipDocId(chunk[i]), "success")
                  /\ \A r \in RowsOf(chunk[i]) : store[r] > hist.store0[r]

(* C8 witness: a finished fault-free chunk with a corrupted and a good archive *)
C8_Witness ==
    /\ pc = "chunk"
    /\ faults = 0
    /\ \E i, j \in 1..Len(chunk) :
          /\ kind[basename(chunk[i])] = "badzip"
          /\ kind[basename(chunk[j])] = "ok"
          /\ HasStatus(ZipDocId(chunk[j]), "success")
          /\ Path(FailedDir, basename(chunk[i])) \in files

(* C9: in runs over well-formed, writable archives without any crash or        *)
(* environment fault, no task is run for a doc_id that already has a success    *)
(* entry, and no success entry is replaced by an error entry.                   *)
C9_SuccessIsFinal ==
    (faults = 0 /\ AllGood) => (~hist.reextract /\ ~hist.demoted)

LedgerAgrees(last) ==
    /\ \A r1, r2 \in ledger : r1.doc_id = r2.doc_id => r1 = r2
    /\ \A d \in DocIds :
          /\ last[d] = NoMark => ~\E r \in ledger : r.doc_id = d
          /\ last[d] # NoMark =>
                \E r \in ledger : /\ r.doc_id = d
                                  /\ r.status = last[d].status
                                  /\ r.error_message = last[d].msg
          /\ is_processed(ledger, d, TRUE) <=> last[d].status = "success"

(* C10 as stated: the ledger entry of a doc_id carries the status and message *)
(* of the most recent mark call for it.                                        *)
C10_LastCallWins ==
    LedgerAgrees(hist.lastCall)

(* C10 as amended: at most one entry per doc_id; it carries the status and     *)
(* message of the most recent mark call whose write the ledger store accepted; *)
(* is_processed is true iff that status is success, and false when its own     *)
(* read fails.                                                                 *)
C10_LastWrittenWins ==
    /\ LedgerAgrees(hist.lastWritten)
    /\ \A d \in DocIds : ~is_processed(ledger, d, FALSE)

(* C10 witness: an error entry replaced a success entry, and a later call's   *)
(* write was refused                                                           *)
C10_Witness ==
    /\ hist.demoted
    /\ \E d \in DocIds : hist.lastCall[d] # hist.lastWritten[d] /\ HasStatus(d, "error")

(* the j-th smallest index of a set of indices *)
Nth(S, j) == CHOOSE i \in S : Cardinality({ k \in S : k < i }) = j - 1

(* the elements of seq at the indices of keep, in the order of seq *)
SelectIdx(seq, keep) == [j \in 1..Cardinality(keep) |-> seq[Nth(keep, j)]]

ExtractorRaises(p) == id_extractor[p].t = "raise"

(* the extracted doc_id of path p has a success entry in the ledger *)
IdHasSuccess(p) == ~ExtractorRaises(p) /\ HasStatus(id_extractor[p].v, "success")

(* C11 as stated: with an extractor that raises for no input path, the filter  *)
(* returns exactly the input paths whose extracted doc_id has no success entry, *)
(* in input order, and leaves the ledger unchanged.                             *)
C11_ExactlyUnprocessed ==
    /\ [](( pc = "filtered" /\ \A i \in 1..Len(candidates) : ~ExtractorRaises(candidates[i]) )
            => todo = SelectIdx(candidates,
                          { i \in 1..Len(candidates) : ~IdHasSuccess(candidates[i]) }))
    /\ [][ledger' = ledger]_vars

(* C11 as amended: when the bulk read of the success ids succeeds, the filter  *)
(* returns, in input order and with repetitions kept, exactly the input paths   *)
(* whose extraction raises or whose extracted doc_id has no success entry; when *)
(* that read fails it returns the whole input list; the ledger is unchanged.    *)
C11_UnprocessedUnlessUnread ==
    /\ [](pc = "filtered" =>
            todo = IF faults = 0
                   THEN SelectIdx(candidates,
                            { i \in 1..Len(candidates) : ~IdHasSuccess(candidates[i]) })
                   ELSE candidates)
    /\ [][ledger' = ledger]_vars

(* C11 witness: three distinct paths, the middle one skipped for its success   *)
(* entry, the other two returned in input order                                 *)
C11_Witness ==
    /\ pc = "filtered"
    /\ faults = 0
    /\ Len(candidates) = 3
    /\ IdHasSuccess(candidates[2])
    /\ candidates[1] # candidates[3]
    /\ todo = << candidates[1], candidates[3] >>

(* C12: every input path for which the id extractor raises is in the output,   *)
(* as often as in the input; the call returns a list; and, the ledger read      *)
(* succeeding, every other path is in the output as often as in the input when  *)
(* its doc_id has no success entry and not at all when it has one.              *)
C12_RaisingPathIncluded ==
    pc = "filtered" =>
        \A i \in 1..Len(candidates) :
            LET p == candidates[i]
            IN /\ ExtractorRaises(p) => Occurrences(todo, p) = Occurrences(candidates, p)
               /\ (~ExtractorRaises(p) /\ faults = 0) =>
                      Occurrences(todo, p) =
                          IF HasStatus(id_extractor[p].v, "success")
                          THEN 0 ELSE Occurrences(candidates, p)

(* C12 witness: a raising path is returned next to a skipped and a kept path   *)
C12_Witness ==
    /\ pc = "filtered"
    /\ faults = 0
    /\ \E i, j, k \in 1..Len(candidates) :
          /\ ExtractorRaises(candidates[i])
          /\ IdHasSuccess(candidates[j])
          /\ ~ExtractorRaises(candidates[k]) /\ ~IdHasSuccess(candidates[k])
          /\ Len(todo) = 2
          /\ Occurrences(todo, candidates[i]) = 1
          /\ Occurrences(todo, candidates[k]) = 1

C14_ErrorEntriesSkipped ==
    pc = "filtered" =>
        \A i \in 1..Len(candidates) :
            LET p == candidates[i]
            IN (~ExtractorRaises(p) /\ HasStatus(id_extractor[p].v, "error")) =>
                  Occurrences(todo, p) = 0

(* C14 as amended: the filter tells error from success: a path whose extracted *)
(* doc_id has an error entry is always in the output, exactly as a path whose   *)
(* doc_id has no entry at all, while a path with a success entry is left out    *)
(* whenever the ledger read succeeds.                                           *)
C14_ErrorEntriesPassed ==
    pc = "filtered" =>
        \A i \in 1..Len(candidates) :
            LET p == candidates[i]
                d == id_extractor[p].v
            IN ~ExtractorRaises(p) =>
                  /\ (HasStatus(d, "error") \/ \A r \in ledger : r.doc_id # d) =>
                        Occurrences(todo, p) = Occurrences(candidates, p)
                  /\ (HasStatus(d, "success") /\ faults = 0) => Occurrences(todo, p) = 0

(* C14 witness: of a path with an error entry and a path with a success entry, *)
(* the ledger being read, only the first is returned                            *)
C14_Witness ==
    /\ pc = "filtered"
    /\ faults = 0
    /\ \E i, j \in 1..Len(candidates) :
          /\ ~ExtractorRaises(candidates[i])
          /\ HasStatus(id_extractor[candidates[i]].v, "error")
          /\ IdHasSuccess(candidates[j])
          /\ Occurrences(todo, candidates[i]) = 1
          /\ Occurrences(todo, candidates[j]) = 0

(* C15: every mark call of the runner, its ledger write accepted or refused,  *)
(* is followed by the next result of the chunk (the run goes on, nothing else   *)
(* changes), and a refused write leaves the ledger as it was; a success entry   *)
(* exists only for a doc_id whose last accepted write was a success mark; and   *)
(* an archive whose most recent mark was refused and whose doc_id has no        *)
(* success entry is in the next run's list of files to process.                 *)
C15_RefusedMarkIsSwallowed ==
    /\ [][(pc \in { "mark", "markerr" } /\ hist'.ncalls = hist.ncalls + 1) =>
            /\ pc' = "persist"
            /\ ri' = ri + 1
            /\ todo' = todo /\ results' = results /\ store' = store
            /\ hist'.lastWritten = hist.lastWritten => ledger' = ledger]_vars
    /\ [](\A d \in DocIds : HasStatus(d, "success") => hist.lastWritten[d].status = "success")
    /\ [][(pc = "idle" /\ run' = run + 1) =>
            \A p \in files :
                ( /\ hist.lastCall[ZipDocId(p)] # hist.lastWritten[ZipDocId(p)]
                  /\ ~HasStatus(ZipDocId(p), "success") ) =>
                    \E i \in 1..Len(todo') : todo'[i] = p]_vars

(* C15 witness: the success mark of an archive without underscore was refused  *)
(* in the first run, the run went on to its end, and the archive's task has run *)
(* again in the second run                                                      *)
C15_Witness ==
    /\ run = 2
    /\ pc = "exec"
    /\ ci = 1
    /\ \E i \in 1..Len(chunk) :
          LET d == ZipDocId(chunk[i])
          IN /\ FilterDocId(chunk[i]) = d
             /\ hist.lastCall[d].status = "success"
             /\ hist.lastWritten[d] = NoMark
             /\ hist.calls[i] = 1
             /\ \E e \in DocIds : e # d /\ hist.lastWritten[e].status = "success"

(* C16: without a crash or an environment fault, whatever archives fail in    *)
(* extraction, parsing or persistence, no exception leaves run: a run never     *)
(* ends by the close of the storage sink raising.                               *)
C16_RunNeverRaises ==
    faults = 0 => hist.exit # "raised"

(* C17: the tasks of a chunk are submitted only from the head of the chunk    *)
(* loop, and for every chunk but the first of a run only when every result of   *)
(* the chunk before has been persisted and marked and the sink holds nothing    *)
(* unwritten; tasks are pending only during the extraction of the current       *)
(* chunk, and the store and the ledger change only after it.                    *)
C17_ChunksSequential ==
    /\ [][(pc' = "exec" /\ pc # "exec") =>
            /\ pc = "chunk"
            /\ chunk' = ChunkAt(todo, ci, ChunkSize)
            /\ ci > 1 =>
                  /\ chunk = ChunkAt(todo, ci - ChunkSize, ChunkSize)
                  /\ ri > Len(results)
                  /\ buffer = << >>
                  /\ \A k \in 1..Len(results) : hist.lastCall[results[k][1]] # NoMark]_vars
    /\ [](pending # {} => (pc = "exec" /\ chunk = ChunkAt(todo, ci, ChunkSize)))
    /\ [][(store' # store \/ ledger' # ledger) =>
            (pc \in { "persist", "mark", "markerr" } /\ chunk' = chunk)]_vars

(* C17 witness: a task of the second chunk has completed; the archives of the  *)
(* first chunk are committed and marked success                                 *)
C17_Witness ==
    /\ pc = "exec"
    /\ ci > 1
    /\ pending # 1..Len(chunk)
    /\ \A i \in 1..(ci - 1) :
          /\ HasStatus(ZipDocId(todo[i]), "success")
          /\ \A r \in RowsOf(todo[i]) : store[r] >= 1
    /\ \E i \in 1..(ci - 1) : kind[basename(todo[i])] = "ok"

(* C18: the store and the ledger change only when no task of the chunk is      *)
(* pending, in the persistence steps of the coordinator; a completing task      *)
(* changes neither of them.                                                     *)
C18_BarrierBeforePersist ==
    /\ [][(store' # store \/ ledger' # ledger) =>
            (pending = {} /\ pc \in { "persist", "mark", "markerr" })]_vars
    /\ [][pending' # pending => (store' = store /\ ledger' = ledger)]_vars
    /\ [](pc \in { "persist", "mark", "markerr" } =>
            (pending = {} /\ \A i \in 1..Len(chunk) : hist.calls[i] = 1))

(* C18 witness: both tasks of a chunk have completed and the first result has  *)
(* been written to the store and the ledger                                     *)
C18_Witness ==
    /\ pc = "persist"
    /\ Len(chunk) = 2
    /\ pending = {}
    /\ ri = 2
    /\ store # hist.store0
    /\ HasStatus(results[1][1], "success")

(* the items of the batch whose future has completed with outcome t *)
DoneWith(t) ==
    { i \in 1..Len(chunk) : i \notin pending /\ _process_wrapper(chunk[i]).t = t }

(* C19: at every point of process_files the success count is the number of    *)
(* completed items with a non-null result and the length of the result list,    *)
(* and the error count is the number of completed items that raised, so an item *)
(* returning null changes neither the list nor a count; at the return the three *)
(* kinds of items add up to the total.                                          *)
C19_CountsAddUp ==
    pc \in { "exec", "returned" } =>
        /\ counts.success = Cardinality(DoneWith("val"))
        /\ counts.success = Len(results)
        /\ counts.error = Cardinality(DoneWith("raise"))
        /\ \A i \in DoneWith("raise") : hist.errs[i] = 1
        /\ \A i \in DoneWith("none") \cup DoneWith("val") : hist.errs[i] = 0
        /\ pc = "returned" =>
              counts.success + counts.error + Cardinality(DoneWith("none")) = Len(chunk)

(* C19 witness: a returned batch of three with one item of each kind           *)
C19_Witness ==
    /\ pc = "returned"
    /\ Len(chunk) = 3
    /\ Cardinality(DoneWith("none")) = 1
    /\ counts = [success |-> 1, error |-> 1]

(* C20: an input is away from its place only if its task raised, an error      *)
(* directory is configured and the file is in that directory under its base     *)
(* name; a raising item whose future has completed has left its place unless a  *)
(* move failed; no file is lost; and at the return every item has been handled  *)
(* once, whether or not a move failed.                                          *)
C20_FailedInputsQuarantined ==
    pc \in { "exec", "returned" } =>
        /\ \A p \in TopPaths :
              /\ _process_wrapper(p).t # "raise" => p \in files
              /\ p \notin files =>
                    /\ errorDir # "none"
                    /\ Path(errorDir, basename(p)) \in files
                    /\ \E i \in DoneWith("raise") : chunk[i] = p
        /\ \A i \in DoneWith("raise") :
              (errorDir # "none" /\ faults = 0) =>
                  /\ chunk[i] \notin files
                  /\ Path(errorDir, basename(chunk[i])) \in files
        /\ errorDir = "none" => files = TopPaths
        /\ Cardinality(files) = Cardinality(TopPaths)
        /\ pc = "returned" => \A i \in 1..Len(chunk) : hist.calls[i] = 1

(* C20 witness: of two raising inputs one is in the error directory and the    *)
(* other, its move having failed, is still in place, next to an input that did  *)
(* not fail; the batch has returned                                             *)
C20_Witness ==
    /\ pc = "returned"
    /\ errorDir = FailedDir
    /\ faults = 1
    /\ \E i, j, k \in DoneWith("raise") \cup DoneWith("val") :
          /\ i \in DoneWith("raise") /\ chunk[i] \notin files
          /\ Path(FailedDir, basename(chunk[i])) \in files
          /\ j \in DoneWith("raise") /\ chunk[j] \in files
          /\ k \in DoneWith("val") /\ chunk[k] \in files

(* C28: is_consolidated_current is true for an identifier that contains       *)
(* CurrentYear and Consolidated but not NonConsolidated, and false for one that *)
(* contains NonConsolidated, for one without CurrentYear or without             *)
(* Consolidated, for the empty string and for None.                             *)
C28_ConsolidatedCurrent ==
    pc = "classified" =>
        LET s  == arg.v
            cy == HasSub(s, << "CurrentYear" >>)
            co == HasSub(s, << "Consolidated" >>)
            nc == HasSub(s, << "Non", "Consolidated" >>)
        IN /\ (cy /\ co /\ ~nc) => ret.v[1]
           /\ nc => ~ret.v[1]
           /\ (~cy \/ ~co) => ~ret.v[1]
           /\ (arg = None \/ s = << >>) => ~ret.v[1]

(* C28 witness: an identifier with CurrentYear, a Consolidated of its own and  *)
(* a NonConsolidated has been classified false                                  *)
C28_Witness ==
    /\ pc = "classified"
    /\ arg # None
    /\ HasSub(arg.v, << "CurrentYear" >>)
    /\ SearchConsolidatedNotAfterNon(arg.v)
    /\ HasSub(arg.v, << "Non", "Consolidated" >>)
    /\ ret = Val(<< FALSE >>)

(* C29: for a non-empty identifier get_period_type returns Instant exactly    *)
(* when Instant occurs, Duration exactly when Duration occurs and Instant does  *)
(* not, and Unknown exactly when neither occurs; and the period of an emitted   *)
(* fact is get_period_type of the fact's context_id.                            *)
C29_PeriodType ==
    /\ (pc = "typed" /\ arg # None /\ arg.v # << >>) =>
          LET i == HasSub(arg.v, << "Instant" >>)
              d == HasSub(arg.v, << "Duration" >>)
          IN /\ ret = Val(<< "Instant" >>) <=> i
             /\ ret = Val(<< "Duration" >>) <=> (d /\ ~i)
             /\ ret = Val(<< "Unknown" >>) <=> (~d /\ ~i)
    /\ pc = "parsed" =>
          /\ Len(ret.v) = IF arg = None \/ arg.v = << >> THEN 0 ELSE 1
          /\ \A j \in 1..Len(ret.v) :
                /\ ret.v[j].context_id = arg.v
                /\ Val(<< ret.v[j].period >>) = get_period_type(Val(ret.v[j].context_id))

(* C29 witness: Instant was returned for an identifier in which Duration       *)
(* occurs before Instant                                                        *)
C29_Witness ==
    /\ pc = "typed"
    /\ arg # None
    /\ \E i, j \in 1..Len(arg.v) : i < j /\ arg.v[i] = "Duration" /\ arg.v[j] = "Instant"
    /\ ret = Val(<< "Instant" >>)

(* C30: get_period_type of the empty string and of None returns Unknown.       *)
C30_PeriodTypeOfNothing ==
    (pc = "typed" /\ (arg = None \/ arg.v = << >>)) => ret = Val(<< "Unknown" >>)

(* record r is what element e gives: same tag, context, trimmed text and      *)
(* attributes                                                                   *)
RecordOf(r, e) ==
    /\ r.tag_name = e.name
    /\ Val(r.context_id) = e.contextRef
    /\ r.raw_value = strip(e.text)
    /\ r.unit = e.unitRef
    /\ r.decimals = e.decimals

HasLinkPrefix(name) ==
    \E i \in 1..Len(name) :
        /\ name[i] = ":"
        /\ \A j \in 1..(i - 1) : name[j] # ":"
        /\ SubSeq(name, 1, i - 1) \in LinkPrefixes

(* element e is excluded for one of the four reasons of C25 *)
Excluded(e) ==
    \/ e.contextRef = None
    \/ \A i \in 1..Len(e.text) : e.text[i] = Blank
    \/ e.name \in NoiseNames
    \/ HasLinkPrefix(e.name)

(* C25: every emitted fact has a non-empty tag_name, context_id and raw_value  *)
(* and comes from an element of the document that has a contextRef, text left   *)
(* after trimming, a name outside the structural-noise set and no linking       *)
(* prefix; there are no more facts than such elements.                          *)
C25_FactsWellFormed ==
    pc = "parsed" =>
        /\ \A j \in 1..Len(ret.v) :
              LET r == ret.v[j]
              IN /\ r.tag_name # << >> /\ r.context_id # << >> /\ r.raw_value # << >>
                 /\ \E i \in 1..Len(document) : RecordOf(r, document[i])
                 /\ \A i \in 1..Len(document) :
                       RecordOf(r, document[i]) => ~Excluded(document[i])
        /\ Len(ret.v) <= Cardinality({ i \in 1..Len(document) : ~Excluded(document[i]) })

(* C25 witness: of a numeric element without text and a numeric element with   *)
(* text, only the second is emitted                                             *)
C25_Witness ==
    /\ pc = "parsed"
    /\ Len(document) = 2
    /\ document[1].contextRef # None /\ document[1].unitRef # None
    /\ document[1].text = << Blank >> /\ ~IsSystemTag(document[1])
    /\ Len(ret.v) = 1
    /\ RecordOf(ret.v[1], document[2])

(* C26: an emitted fact has a normalized_value exactly when it carries a unit  *)
(* or a decimals attribute, and then it is the number its text writes, or 0.    *)
C26_NormalizedIffNumeric ==
    pc = "parsed" =>
        \A j \in 1..Len(ret.v) :
            LET r == ret.v[j]
            IN /\ r.normalized_value # None <=> (r.unit # None \/ r.decimals # None)
               /\ r.normalized_value # None =>
                     r.normalized_value =
                         Val(IF r.raw_value = << "1000000" >> THEN << "fin", 1, 6 >>
                             ELSE << "fin", 0, 0 >>)

(* C26 witness: a numeric fact with its number next to a text fact without one *)
C26_Witness ==
    /\ pc = "parsed"
    /\ Len(ret.v) = 2
    /\ ret.v[1].normalized_value = Val(Fin(1000000, 0))
    /\ ret.v[2].normalized_value = None

(* the elements of the document that C27 says are emitted *)
Kept ==
    { i \in 1..Len(document) :
        /\ Survives(document[i])
        /\ \/ document[i].unitRef # None
           \/ document[i].decimals # None
           \/ /\ ~\E k \in 1..Len(document[i].name) : document[i].name[k] = "TextBlock"
              /\ StrLen(strip(document[i].text)) <= 500 }

(* C27: the facts are, in document order, those of the surviving elements that *)
(* are numeric, or that have no TextBlock in the tag name and at most 500       *)
(* characters of trimmed text.                                                  *)
C27_NumericAlwaysTextIfShort ==
    pc = "parsed" =>
        /\ Len(ret.v) = Cardinality(Kept)
        /\ \A j \in 1..Len(ret.v) : RecordOf(ret.v[j], document[Nth(Kept, j)])

(* C27 witness: a numeric TextBlock element of 501 characters and a text       *)
(* element of exactly 500 characters are both emitted                           *)
C27_Witness ==
    /\ pc = "parsed"
    /\ Len(document) = 2
    /\ HasSub(document[1].name, << "TextBlock" >>)
    /\ document[1].unitRef # None
    /\ StrLen(strip(document[1].text)) = MAX_TEXT_LENGTH + 1
    /\ document[2].unitRef = None /\ document[2].decimals = None
    /\ StrLen(strip(document[2].text)) = MAX_TEXT_LENGTH
    /\ StrLen(document[2].text) > MAX_TEXT_LENGTH
    /\ Len(ret.v) = 2

(* C24: every fact of a result, of the sink's buffer and of the store carries  *)
(* the doc_id taken from the name of its archive, never the provisional one of  *)
(* the parser; and the ledger entry the runner writes for a result has that     *)
(* doc_id as its key.                                                           *)
C24_ArchiveDocIdEverywhere ==
    /\ [](Inner = ProvisionalDocId(InnerName))
    /\ [](process_func = "process_zip_file" =>
            /\ \A i \in 1..Len(results) :
                  /\ \E j \in 1..Len(chunk) : results[i][1] = ZipDocId(chunk[j])
                  /\ \A j \in 1..Len(results[i][2]) : results[i][2][j].doc_id = results[i][1]
            /\ \A j \in 1..Len(buffer) :
                  /\ buffer[j].doc_id # Inner
                  /\ \E p \in Paths : buffer[j].doc_id = ZipDocId(p)
            /\ \A r \in Rows : store[r] > 0 => r.doc_id \in DocIds \ { Inner })
    /\ [][ \A e \in ledger' \ ledger :
              /\ pc \in { "mark", "markerr" }
              /\ e.doc_id = results[ri][1]
              /\ \A j \in 1..Len(results[ri][2]) : results[ri][2][j].doc_id = e.doc_id ]_vars

(* C24 witness: the rows of archive B_x.zip are in the store under B, and the  *)
(* ledger has a success entry under B                                            *)
C24_Witness ==
    /\ process_func = "process_zip_file"
    /\ \E r \in Rows : r.doc_id = << "B" >> /\ store[r] > 0
    /\ HasStatus(<< "B" >>, "success")
    /\ \E i \in 1..Len(results) : results[i][1] = << "B" >> /\ results[i][2] # << >>

(* C22: no step of the runner or of the sink takes a committed row away: the   *)
(* number of committed rows of each content never goes down, within a run and   *)
(* from run to run.                                                             *)
C22_StoreAppendOnly ==
    /\ [][\A r \in Rows : store'[r] >= store[r]]_vars
    /\ [](\A r \in Rows : store[r] >= hist.store0[r])

(* C22 witness: a second run in which a flush failed and was rolled back, with *)
(* the rows of the first run still committed                                    *)
C22_Witness ==
    /\ run = 2
    /\ hist.flushFailed # {}
    /\ \E r \in Rows : hist.store0[r] > 0 /\ store[r] > 0

(* the fact a row of the archive of kind "doc" stands for *)
FactOf(r) == [parse(InnerName, document)[r.k] EXCEPT !.doc_id = r.doc_id]

(* C21: on an empty store and ledger, the first run over the one archive       *)
(* B_x.zip whose document has one numeric fact and one long TextBlock fact,     *)
(* ended without a fault, leaves exactly one row, with doc_id B, the numeric    *)
(* fact's tag, its normalized value and period Instant, and exactly one ledger  *)
(* entry, success under B.                                                      *)
C21_EndToEnd ==
    ( /\ run = 1 /\ pc = "idle" /\ hist.exit = "done" /\ faults = 0
      /\ document \in { << NetSalesFact, LongTextBlockFact >>,
                        << LongTextBlockFact, NetSalesFact >> } ) =>
        /\ \E r \in Rows :
              /\ store[r] = 1
              /\ \A q \in Rows \ { r } : store[q] = 0
              /\ r.doc_id = << "B" >>
              /\ FactOf(r).doc_id = << "B" >>
              /\ FactOf(r).tag_name = << "NetSales" >>
              /\ FactOf(r).raw_value = << "1000000" >>
              /\ FactOf(r).normalized_value = Val(Fin(1000000, 0))
              /\ FactOf(r).period = "Instant"
        /\ ledger = { LedgerRow(<< "B" >>, LedgerPath(<< "B" >>), "success", Null) }

(* C21 witness: such a run has ended, with the TextBlock fact first in the     *)
(* document                                                                     *)
C21_Witness ==
    /\ run = 1 /\ pc = "idle" /\ hist.exit = "done" /\ faults = 0
    /\ document = << LongTextBlockFact, NetSalesFact >>
    /\ \E r \in Rows : store[r] = 1
    /\ Cardinality(ledger) = 1

(* the task of item i has left the work function after making a directory *)
Exited(i) == i \in 1..Len(chunk) /\ i \notin pending /\ temp_dir[i] # Null

RunningDirs == { temp_dir[i] : i \in { k \in 1..Len(chunk) : Running(k) } }

(* C23 as stated: once a task has left the work function, by whatever path,    *)
(* the directory it made is gone (or is one a running task has made anew), and  *)
(* no two running tasks have the same directory.                                *)
C23_RemovedOnEveryExit ==
    pc = "work" =>
        /\ \A i \in 1..Len(chunk) :
              Exited(i) => (temp_dir[i] \notin tmpdirs \/ temp_dir[i] \in RunningDirs)
        /\ \A i, j \in 1..Len(chunk) :
              (Running(i) /\ Running(j) /\ i # j) => temp_dir[i] # temp_dir[j]

(* C23 amended: every running task has a directory of its own that exists;    *)
(* the directories that exist without a running task are at most as many as     *)
(* the removals that failed, so that without a failed removal the directory of  *)
(* every task that left the function, by return or by exception, is gone.       *)
C23_RemovedUnlessRemovalFails ==
    pc = "work" =>
        /\ RunningDirs \subseteq tmpdirs
        /\ \A i, j \in 1..Len(chunk) :
              (Running(i) /\ Running(j) /\ i # j) => temp_dir[i] # temp_dir[j]
        /\ Cardinality(tmpdirs \ RunningDirs) <= faults
        /\ faults = 0 =>
              \A i \in 1..Len(chunk) :
                  Exited(i) => (temp_dir[i] \notin tmpdirs \/ temp_dir[i] \in RunningDirs)

(* C23 witness: a task that raised and a task that returned facts have both    *)
(* left the function, and no directory exists                                   *)
C23_Witness ==
    /\ pc = "work"
    /\ faults = 0
    /\ tmpdirs = {}
    /\ \E i, j \in 1..Len(chunk) :
          /\ Exited(i) /\ Exited(j)
          /\ kind[basename(chunk[i])] \in { "badzip", "unparsable" }
          /\ kind[basename(chunk[j])] = "ok"

(* the text writes a number: blanks around an optional sign and digits with   *)
(* at most one point, or such a numeral followed by e and a signed exponent     *)
WritesNumber(t) ==
    LET b == IF strip(t) # << >> /\ Head(strip(t)) \in { "-", "+" } THEN Tail(strip(t))
             ELSE strip(t)
        isDigit(c) == c \in { "1", "2", "5" }
        plain(x) ==
            /\ \E i \in 1..Len(x) : isDigit(x[i])
            /\ \A i \in 1..Len(x) : isDigit(x[i]) \/ x[i] = "."
            /\ Cardinality({ i \in 1..Len(x) : x[i] = "." }) <= 1
    IN \/ plain(b)
       \/ \E i \in 1..Len(b) : b[i] = "e" /\ plain(SubSeq(b, 1, i - 1))

(* C31: normalize of None, of the empty string and of a text that writes no    *)
(* number is 0.0; "12.5" gives 12.5, "125" gives 125.0.                         *)
C31_NonNumericIsZero ==
    pc = "normalized" =>
        /\ (arg = None \/ ~WritesNumber(arg.v)) => ret = Val(<< "fin", 0, 0 >>)
        /\ arg = Val(<< "1", "2", ".", "5" >>) => ret = Val(<< "fin", 125, 0 - 1 >>)
        /\ arg = Val(<< "1", "2", "5" >>) => ret = Val(<< "fin", 125, 0 >>)

(* C32: whatever the hints, normalize returns what it returns without hints,   *)
(* and a numeric fact's normalized_value is normalize of its trimmed text       *)
(* alone.                                                                       *)
C32_HintsIgnored ==
    /\ pc = "normalized" =>
          /\ ret = Val(normalize(arg, None, None))
          /\ \A h \in Hints : normalize(arg, h[2], h[1]) = ret.v
    /\ pc = "parsed" =>
          \A j \in 1..Len(ret.v) :
              ret.v[j].normalized_value # None =>
                  ret.v[j].normalized_value = Val(normalize(Val(ret.v[j].raw_value), None, None))

(* C32 witness: 12.5 was normalized with a decimals hint of -3 and is 12.5 *)
C32_Witness ==
    /\ pc = "normalized"
    /\ arg = Val(<< "1", "2", ".", "5" >>)
    /\ document[1].decimals = Val(<< "-", "3" >>)
    /\ ret = Val(<< "fin", 125, 0 - 1 >>)

(* C33: when the process dies between the flush of a document and its ledger  *)
(* write, the store is left as it was, the document has no success entry, and   *)
(* the run that starts after the crash takes up every archive whose doc_id has  *)
(* no success entry, that document's archive among them.                        *)
C33_CrashAfterFlushReprocesses ==
    /\ [][ (pc = "mark" /\ pc' = "idle" /\ hist'.exit = "crashed") =>
              /\ store' = store
              /\ ledger' = ledger
              /\ \A r \in Rows : store[r] >= hist.store0[r]
              /\ ~HasStatus(results[ri][1], "success") ]_vars
    /\ [][ (pc = "idle" /\ hist.exit = "crashed" /\ run' = run + 1) =>
              \A p \in files :
                  (p \in TopPaths /\ ~HasStatus(ZipDocId(p), "success")) =>
                      \E i \in 1..Len(todo') : todo'[i] = p ]_vars

(* C34: an archive without a document is never in quarantine, never has fact  *)
(* rows nor an error entry; its task returns its doc_id with no records; the     *)
(* Persist step for it leaves store and buffer alone and goes on to the success  *)
(* mark, unless the process dies; and, no ledger write having failed, it has a   *)
(* success entry once the Persist loop has passed it.                            *)
C34_NoDocumentIsSuccess ==
    /\ [](process_func = "process_zip_file" =>
            \A f \in Files :
                kind[f] = "nodoc" =>
                    /\ Path(FailedDir, f) \notin files
                    /\ Path(TopDir, f) \in files
                    /\ process_zip_file(Path(TopDir, f), kind[f])
                           = Val(<< ZipDocId(Path(TopDir, f)), << >> >>)
                    /\ \A r \in Rows : r.doc_id = ZipDocId(Path(TopDir, f)) => store[r] = 0
                    /\ ~HasStatus(ZipDocId(Path(TopDir, f)), "error")
                    /\ hist.lastCall[ZipDocId(Path(TopDir, f))].status # "error")
    /\ []((pc = "persist" /\ faults = 0) =>
            \A i \in 1..Min(ri - 1, Len(results)) :
                results[i][2] = << >> => HasStatus(results[i][1], "success"))
    /\ [][ (pc = "persist" /\ ri <= Len(results) /\ results[ri][2] = << >>) =>
              /\ store' = store
              /\ \/ pc' = "mark" /\ buffer' = buffer
                 \/ pc' = "idle" /\ hist'.exit = "crashed" ]_vars

(* C34 witness: the Persist loop has passed an archive without a document,    *)
(* which has its success entry and is where it was                              *)
C34_Witness ==
    /\ pc = "persist"
    /\ faults = 0
    /\ \E i \in 1..Min(ri - 1, Len(results)) :
          /\ results[i][2] = << >>
          /\ HasStatus(results[i][1], "success")
          /\ \E j \in 1..Len(chunk) :
                /\ kind[basename(chunk[j])] = "nodoc"
                /\ ZipDocId(chunk[j]) = results[i][1]
                /\ chunk[j] \in files

(* C35: the chunk in hand is the slice of the filtered list that starts at ci, *)
(* ci being 1 plus a multiple of the chunk size; it is non-empty, of the chunk   *)
(* size unless it is the last, and holds all the results there are; ci moves on  *)
(* by one chunk size at a time; and a run that is not killed ends only when the  *)
(* slices submitted cover the whole filtered list.                               *)
C35_ChunksCoverFilteredList ==
    /\ [](pc \in { "exec", "persist", "mark", "markerr" } =>
            /\ (ci - 1) % ChunkSize = 0
            /\ chunk = SubSeq(todo, ci, Min(ci + ChunkSize - 1, Len(todo)))
            /\ chunk # << >>
            /\ Len(chunk) <= ChunkSize
            /\ ci + ChunkSize - 1 <= Len(todo) => Len(chunk) = ChunkSize
            /\ Len(results) <= Len(chunk))
    /\ [][ ci' # ci => (ci' = ci + ChunkSize \/ pc' = "idle" \/ pc = "idle") ]_vars
    /\ [][ (pc # "idle" /\ pc' = "idle" /\ hist'.exit # "crashed") =>
              ci + (IF pc = "chunk" THEN 0 ELSE ChunkSize) > Len(todo) ]_vars

(* C36: the filtered list of a run holds no path of the quarantine directory, *)
(* and no such path is ever in a chunk submitted to the executor.                *)
C36_QuarantinedNeverListed ==
    /\ [][ run' = run + 1 => \A i \in 1..Len(todo') : todo'[i].dir # FailedDir ]_vars
    /\ [](pc = "exec" => \A i \in 1..Len(chunk) : chunk[i].dir # FailedDir)

(* C37: an archive whose task fails in the executor never has a ledger entry   *)
(* and no mark call is made for it; the ledger changes only in the Persist loop,  *)
(* for the doc_id of the result in hand, which a task of the chunk returned; and  *)
(* an error entry is written only after the flush for that result has raised,     *)
(* with the message of that failure.                                              *)
C37_ExecutorFailuresUnrecorded ==
    /\ [](process_func = "process_zip_file" =>
            \A f \in Files :
                kind[f] = "badzip" =>
                    /\ \A e \in ledger : e.doc_id # ZipDocId(Path(TopDir, f))
                    /\ hist.lastCall[ZipDocId(Path(TopDir, f))] = NoMark)
    /\ [][ (ledger' # ledger \/ hist'.ncalls # hist.ncalls) =>
              /\ pc \in { "mark", "markerr" }
              /\ ri <= Len(results)
              /\ \E i \in 1..Len(chunk) :
                    /\ _process_wrapper(chunk[i]) = Val(results[ri])
                    /\ hist.calls[i] = 1 /\ hist.errs[i] = 0
              /\ \A e \in ledger' \ ledger :
                    /\ e.doc_id = results[ri][1]
                    /\ e.status = IF pc = "mark" THEN "success" ELSE "error"
                    /\ e.status = "error" =>
                          /\ results[ri][1] \in hist.flushFailed
                          /\ err # Null
                          /\ e.error_message = err ]_vars

(* C37 witness: the chunk is persisted; its corrupted archive failed in the    *)
(* executor and has no entry, its refused archive has an error entry              *)
C37_Witness ==
    /\ pc = "persist"
    /\ ri > Len(results)
    /\ \E i, j \in 1..Len(chunk) :
          /\ kind[basename(chunk[i])] = "badzip"
          /\ hist.errs[i] = 1
          /\ \A e \in ledger : e.doc_id # ZipDocId(chunk[i])
          /\ kind[basename(chunk[j])] = "rej"
          /\ HasStatus(ZipDocId(chunk[j]), "error")

(* the store st with every record of buf added as a new row *)
Added(st, buf) ==
    [r \in Rows |-> st[r] + Cardinality({ i \in 1..Len(buf) : buf[i] = r })]

(* C38: a flush on an empty buffer changes nothing and raises nothing; a flush  *)
(* on a non-empty buffer either adds a row for every buffered record and leaves  *)
(* the buffer empty, or raises and leaves store and buffer as they were; the     *)
(* same holds for the flush an insert sets off, and an insert that sets off no   *)
(* flush only extends the buffer.                                                *)
C38_FlushAllOrNothing ==
    /\ [][ pc' = "flushed" =>
              IF buffer = << >>
              THEN store' = store /\ buffer' = << >> /\ err' = Null
              ELSE \/ err' = Null /\ buffer' = << >> /\ store' = Added(store, buffer)
                   \/ err' # Null /\ buffer' = buffer /\ store' = store ]_vars
    /\ [][ pc' = "inserted" =>
              LET b == buffer \o arg'.v
              IN IF Len(b) < ClientBatchSize
                 THEN store' = store /\ buffer' = b /\ err' = Null
                 ELSE \/ err' = Null /\ buffer' = << >> /\ store' = Added(store, b)
                      \/ err' # Null /\ buffer' = b /\ store' = store ]_vars

(* C38 witness: a flush has raised on a buffer whose first record the store    *)
(* would take and whose second it refuses; both are still buffered, neither is   *)
(* committed                                                                     *)
C38_Witness ==
    /\ pc = "flushed"
    /\ err = "rejected"
    /\ Len(buffer) = 2
    /\ ~buffer[1].rej /\ buffer[2].rej
    /\ store = EmptyStore

=============================================================================
